---- MODULE Spec2Model ----
(***************************************************************************)
(* Model of rbn-parser: the bounded per-filter spot storage                *)
(* (src/src/storage.rs), the spot record and its serialized size           *)
(* (src/src/spot.rs) and the filter predicate (src/src/filter.rs).         *)
(*                                                                         *)
(* Strings whose content matters (callsigns, patterns, band labels) are    *)
(* sequences of one-character strings.  Vec/VecDeque are sequences; the    *)
(* code's 0-based index k is position k+1 of the sequence.  Option<T> is a *)
(* sequence of length 0 (None) or 1 (Some).                                *)
(***************************************************************************)
EXTENDS Integers, Sequences, FiniteSets, Bags, TLC

(***************************************************************************)
(* Bounds of the model                                                     *)
(***************************************************************************)
\* number of store_spot / try_store calls explored
MaxOps == 5
\* largest max_kept_entries / default_max_kept_entries explored
MaxCap == 2

\* the last element of a non-empty sequence
Last(s) == s[Len(s)]

None == << >>
Some(v) == << v >>
IsSome(o) == Len(o) = 1
Unwrap(o) == o[1]
\* Option::unwrap_or
UnwrapOr(o, d) == IF IsSome(o) THEN o[1] ELSE d

(***************************************************************************)
(* spot.rs                                                                 *)
(***************************************************************************)
Modes == {"CW", "RTTY", "FT8", "FT4", "PSK31", "UNKNOWN"}
SpotTypes == {"CQ", "NCDXF_BEACON", "BEACON", "OTHER"}

\* serde name of a Mode (rename_all = "UPPERCASE"): its length in bytes
ModeJsonLen(m) ==
    CASE m = "CW" -> 2
      [] m = "RTTY" -> 4
      [] m = "FT8" -> 3
      [] m = "FT4" -> 3
      [] m = "PSK31" -> 5
      [] m = "UNKNOWN" -> 7

\* serde name of a SpotType (rename_all = "SCREAMING_SNAKE_CASE")
SpotTypeJsonLen(t) ==
    CASE t = "CQ" -> 2
      [] t = "NCDXF_BEACON" -> 12
      [] t = "BEACON" -> 6
      [] t = "OTHER" -> 5

RECURSIVE DecimalDigits(_)
\* number of decimal digits of a natural number
DecimalDigits(n) == IF n < 10 THEN 1 ELSE 1 + DecimalDigits(n \div 10)

\* length of the decimal text of a signed integer
IntJsonLen(n) == IF n < 0 THEN 1 + DecimalDigits(-n) ELSE DecimalDigits(n)

\* mutant of FreqFloor: the frequency is rounded to the nearest kHz
FreqFloor_Round(spot) == (spot.frequency_tenths + 5) \div 10

\* frequency_khz is kept in tenths of a kHz (the feed has one decimal);
\* `frequency_khz as u32` truncates
FreqFloor(spot) == spot.frequency_tenths \div 10

\* serde_json prints an f64 with one decimal place as <integer part>.<digit>
FloatJsonLen(tenths) == DecimalDigits(tenths \div 10) + 2

\* bytes of the JSON object besides the field values: braces, keys, quotes,
\* colons and commas of the eight fields of CwSpot
JsonOverhead == 96
\* chrono serializes NaiveTime with whole seconds as HH:MM:SS
TimeJsonLen == 8

\* serde_json::to_string(self).map(|s| s.len()): the length of the JSON text
SerializedLen(spot) ==
    JsonOverhead + Len(spot.spotter) + FloatJsonLen(spot.frequency_tenths)
      + Len(spot.dx_call) + ModeJsonLen(spot.mode) + IntJsonLen(spot.snr_db)
      + IntJsonLen(spot.wpm) + SpotTypeJsonLen(spot.spot_type) + TimeJsonLen

\* make_spot(dx_call) of the tests of storage.rs
make_spot(dx_call) ==
    [spotter |-> <<"T","E","S","T","-","#">>, frequency_tenths |-> 140250,
     dx_call |-> dx_call, mode |-> "CW", snr_db |-> 15, wpm |-> 20,
     spot_type |-> "CQ", time |-> <<12, 0, 0>>]

SpotW1AW == make_spot(<<"W","1","A","W">>)
SpotW6JSV == make_spot(<<"W","6","J","S","V">>)

\* the spots handed to store_spot and try_store: two serialized sizes
Spots == {SpotW1AW, SpotW6JSV}

\* the serialized length of every spot of the model, computed once
SerializedLenOf == [spot \in Spots |-> SerializedLen(spot)]

\* CwSpot::json_size
json_size(spot) ==
    IF spot \in Spots THEN SerializedLenOf[spot] ELSE SerializedLen(spot)

\* CwSpot::band: None or Some(label)
band(spot) ==
    LET f == FreqFloor(spot) IN
    CASE f >= 135 /\ f <= 138 -> Some(<<"2","2","0","0","m">>)
      [] f >= 472 /\ f <= 479 -> Some(<<"6","3","0","m">>)
      [] f >= 1800 /\ f <= 2000 -> Some(<<"1","6","0","m">>)
      [] f >= 3500 /\ f <= 4000 -> Some(<<"8","0","m">>)
      [] f >= 5330 /\ f <= 5410 -> Some(<<"6","0","m">>)
      [] f >= 7000 /\ f <= 7300 -> Some(<<"4","0","m">>)
      [] f >= 10100 /\ f <= 10150 -> Some(<<"3","0","m">>)
      [] f >= 14000 /\ f <= 14350 -> Some(<<"2","0","m">>)
      [] f >= 18068 /\ f <= 18168 -> Some(<<"1","7","m">>)
      [] f >= 21000 /\ f <= 21450 -> Some(<<"1","5","m">>)
      [] f >= 24890 /\ f <= 24990 -> Some(<<"1","2","m">>)
      [] f >= 28000 /\ f <= 29700 -> Some(<<"1","0","m">>)
      [] f >= 50000 /\ f <= 54000 -> Some(<<"6","m">>)
      [] f >= 144000 /\ f <= 148000 -> Some(<<"2","m">>)
      [] OTHER -> None

(***************************************************************************)
(* filter.rs                                                               *)
(***************************************************************************)
LowerChars == <<"a","b","c","d","e","f","g","h","i","j","k","l","m",
                "n","o","p","q","r","s","t","u","v","w","x","y","z">>
UpperChars == <<"A","B","C","D","E","F","G","H","I","J","K","L","M",
                "N","O","P","Q","R","S","T","U","V","W","X","Y","Z">>

ToUpperChar(c) ==
    IF \E k \in 1..26 : LowerChars[k] = c
    THEN UpperChars[CHOOSE k \in 1..26 : LowerChars[k] = c]
    ELSE c

\* str::to_ascii_uppercase
to_ascii_uppercase(s) == [k \in 1..Len(s) |-> ToUpperChar(s[k])]

\* str::eq_ignore_ascii_case
eq_ignore_ascii_case(a, b) == to_ascii_uppercase(a) = to_ascii_uppercase(b)

\* str::starts_with / str::ends_with
starts_with(v, p) == Len(p) <= Len(v) /\ SubSeq(v, 1, Len(p)) = p
ends_with(v, s) == Len(s) <= Len(v) /\ SubSeq(v, Len(v) - Len(s) + 1, Len(v)) = s

\* mutant of matches_wildcard: the value is compared as it is
matches_wildcard_ValueAsIs(pattern, value) ==
    LET pattern_upper == to_ascii_uppercase(pattern)
        value_upper == value
    IN  IF Len(pattern_upper) > 0 /\ pattern_upper[1] = "*"
        THEN ends_with(value_upper, Tail(pattern_upper))
        ELSE IF Len(pattern_upper) > 0 /\ pattern_upper[Len(pattern_upper)] = "*"
        THEN starts_with(value_upper, SubSeq(pattern_upper, 1, Len(pattern_upper) - 1))
        ELSE pattern_upper = value_upper

\* matches_wildcard
matches_wildcard(pattern, value) ==
    LET pattern_upper == to_ascii_uppercase(pattern)
        value_upper == to_ascii_uppercase(value)
    IN  IF Len(pattern_upper) > 0 /\ pattern_upper[1] = "*"
        THEN ends_with(value_upper, Tail(pattern_upper))
        ELSE IF Len(pattern_upper) > 0 /\ pattern_upper[Len(pattern_upper)] = "*"
        THEN starts_with(value_upper, SubSeq(pattern_upper, 1, Len(pattern_upper) - 1))
        ELSE pattern_upper = value_upper

\* mutant of validate_wildcard_pattern: a wildcard in the middle passes
validate_wildcard_pattern_NoMiddle(pattern) ==
    LET wildcard_count == Cardinality({k \in DOMAIN pattern : pattern[k] = "*"}) IN
    IF wildcard_count > 1
    THEN [ok |-> FALSE, err |-> "multiple wildcards"]
    ELSE [ok |-> TRUE, err |-> ""]

\* validate_wildcard_pattern: Ok(()) or Err(message)
validate_wildcard_pattern(pattern) ==
    LET wildcard_count == Cardinality({k \in DOMAIN pattern : pattern[k] = "*"}) IN
    IF wildcard_count > 1
    THEN [ok |-> FALSE, err |-> "multiple wildcards"]
    ELSE IF /\ wildcard_count = 1
            /\ ~starts_with(pattern, <<"*">>)
            /\ ~ends_with(pattern, <<"*">>)
         THEN [ok |-> FALSE, err |-> "wildcard in middle"]
         ELSE [ok |-> TRUE, err |-> ""]

\* SpotFilter::validate: Ok(()) iff every pattern of dx_call and of spotter
\* is valid
SpotFilter_validate(filter) ==
    /\ \A k \in DOMAIN UnwrapOr(filter.dx_call, << >>) :
          validate_wildcard_pattern(Unwrap(filter.dx_call)[k]).ok
    /\ \A k \in DOMAIN UnwrapOr(filter.spotter, << >>) :
          validate_wildcard_pattern(Unwrap(filter.spotter)[k]).ok

\* Config::validate: Ok(()) iff every filter is valid
Config_validate(filters) ==
    \A i \in DOMAIN filters : SpotFilter_validate(filters[i])

\* PatternList::matches_any
matches_any(patterns, value) ==
    \E k \in 1..Len(patterns) : matches_wildcard(patterns[k], value)

\* Vec::contains
Contains(vec, x) == \E k \in 1..Len(vec) : vec[k] = x

\* mutant of matches: min_snr is an exclusive bound
matches_ExclusiveMinSnr(filter, spot) ==
    /\ ~(IsSome(filter.dx_call) /\ Len(Unwrap(filter.dx_call)) > 0
           /\ ~matches_any(Unwrap(filter.dx_call), spot.dx_call))
    /\ ~(IsSome(filter.spotter) /\ Len(Unwrap(filter.spotter)) > 0
           /\ ~matches_any(Unwrap(filter.spotter), spot.spotter))
    /\ (IsSome(filter.bands) =>
          /\ IsSome(band(spot))
          /\ \E k \in 1..Len(Unwrap(filter.bands)) :
                eq_ignore_ascii_case(Unwrap(filter.bands)[k], Unwrap(band(spot))))
    /\ ~(IsSome(filter.modes) /\ ~Contains(Unwrap(filter.modes), spot.mode))
    /\ ~(IsSome(filter.spot_types) /\ ~Contains(Unwrap(filter.spot_types), spot.spot_type))
    /\ ~(IsSome(filter.min_snr) /\ spot.snr_db <= Unwrap(filter.min_snr))
    /\ ~(IsSome(filter.max_snr) /\ spot.snr_db > Unwrap(filter.max_snr))
    /\ ~(IsSome(filter.min_wpm) /\ spot.wpm < Unwrap(filter.min_wpm))
    /\ ~(IsSome(filter.max_wpm) /\ spot.wpm > Unwrap(filter.max_wpm))

\* SpotFilter::matches
matches(filter, spot) ==
    /\ ~(IsSome(filter.dx_call) /\ Len(Unwrap(filter.dx_call)) > 0
           /\ ~matches_any(Unwrap(filter.dx_call), spot.dx_call))
    /\ ~(IsSome(filter.spotter) /\ Len(Unwrap(filter.spotter)) > 0
           /\ ~matches_any(Unwrap(filter.spotter), spot.spotter))
    /\ (IsSome(filter.bands) =>
          /\ IsSome(band(spot))
          /\ \E k \in 1..Len(Unwrap(filter.bands)) :
                eq_ignore_ascii_case(Unwrap(filter.bands)[k], Unwrap(band(spot))))
    /\ ~(IsSome(filter.modes) /\ ~Contains(Unwrap(filter.modes), spot.mode))
    /\ ~(IsSome(filter.spot_types) /\ ~Contains(Unwrap(filter.spot_types), spot.spot_type))
    /\ ~(IsSome(filter.min_snr) /\ spot.snr_db < Unwrap(filter.min_snr))
    /\ ~(IsSome(filter.max_snr) /\ spot.snr_db > Unwrap(filter.max_snr))
    /\ ~(IsSome(filter.min_wpm) /\ spot.wpm < Unwrap(filter.min_wpm))
    /\ ~(IsSome(filter.max_wpm) /\ spot.wpm > Unwrap(filter.max_wpm))

\* SpotFilter::default(): every field None
DefaultFilter ==
    [name |-> None, dx_call |-> None, spotter |-> None, bands |-> None,
     modes |-> None, spot_types |-> None, min_snr |-> None, max_snr |-> None,
     min_wpm |-> None, max_wpm |-> None, max_kept_entries |-> None]

(***************************************************************************)
(* storage.rs: FilterStorage                                               *)
(***************************************************************************)
\* FilterStorage::new
FilterStorage_new(name, max_kept_entries) ==
    [name |-> name, max_kept_entries |-> max_kept_entries, spots |-> << >>,
     next_seq |-> 1, overflow_count |-> 0, current_size_bytes |-> 0]

\* FilterStorage::len
len(fs) == Len(fs.spots)

\* mutant of latest_seq: the seq of the front entry instead of the back
latest_seq_Front(fs) == IF fs.spots = << >> THEN 0 ELSE fs.spots[1].seq

\* FilterStorage::latest_seq
latest_seq(fs) == IF fs.spots = << >> THEN 0 ELSE fs.spots[Len(fs.spots)].seq

\* mutant of SinceFilter: an inclusive cursor
SinceFilter_Inclusive(s, since) == s.seq >= since

\* the predicate of the filter closure in get_spots_since
SinceFilter(s, since) == s.seq > since

RECURSIVE FilterSince(_, _)
\* iter().filter(..).cloned().collect() over the queue, front to back
FilterSince(spots, since) ==
    IF spots = << >> THEN << >>
    ELSE IF SinceFilter(Head(spots), since)
         THEN << Head(spots) >> \o FilterSince(Tail(spots), since)
         ELSE FilterSince(Tail(spots), since)

\* FilterStorage::get_spots_since
get_spots_since(fs, since) == FilterSince(fs.spots, since)

\* mutant of push: the seq is taken from the queue length, not from next_seq
push_SeqFromLen(fs, spot) ==
    [fs EXCEPT !.spots = Append(@, [seq |-> Len(fs.spots) + 1, spot |-> spot]),
               !.next_seq = @ + 1,
               !.current_size_bytes = @ + json_size(spot)]

\* mutant of push: current_size_bytes is not increased
push_NoSize(fs, spot) ==
    [fs EXCEPT !.spots = Append(@, [seq |-> fs.next_seq, spot |-> spot]),
               !.next_seq = @ + 1]

\* FilterStorage::push: the queue after the push (the returned size is
\* json_size(spot))
push(fs, spot) ==
    [fs EXCEPT !.spots = Append(@, [seq |-> fs.next_seq, spot |-> spot]),
               !.next_seq = @ + 1,
               !.current_size_bytes = @ + json_size(spot)]

\* mutant of pop_oldest: pops the newest entry (pop_back)
pop_newest(fs) ==
    IF fs.spots = << >>
    THEN [fs |-> fs, removed |-> None]
    ELSE [fs |-> [fs EXCEPT !.spots = SubSeq(@, 1, Len(@) - 1),
                            !.current_size_bytes = @ - json_size(Last(fs.spots).spot),
                            !.overflow_count = @ + 1],
          removed |-> Some(json_size(Last(fs.spots).spot))]

\* mutant of pop_oldest: the eviction is not counted in overflow_count
pop_oldest_NoCount(fs) ==
    IF fs.spots = << >>
    THEN [fs |-> fs, removed |-> None]
    ELSE [fs |-> [fs EXCEPT !.spots = Tail(@),
                            !.current_size_bytes = @ - json_size(Head(fs.spots).spot)],
          removed |-> Some(json_size(Head(fs.spots).spot))]

\* FilterStorage::pop_oldest: the queue after the pop and the Option<usize>
\* it returns
pop_oldest(fs) ==
    IF fs.spots = << >>
    THEN [fs |-> fs, removed |-> None]
    ELSE [fs |-> [fs EXCEPT !.spots = Tail(@),
                            !.current_size_bytes = @ - json_size(Head(fs.spots).spot),
                            !.overflow_count = @ + 1],
          removed |-> Some(json_size(Head(fs.spots).spot))]

(***************************************************************************)
(* storage.rs: SpotStorage                                                 *)
(***************************************************************************)
\* format!("filter_{}", i)
GeneratedName(i) == <<"filter_0", "filter_1", "filter_2", "filter_3">>[i + 1]

\* SpotStorage::new
SpotStorage_new(config, filters) ==
    [global_max_size |-> config.global_max_size,
     filters |-> [k \in 1..Len(filters) |->
        [filter |-> filters[k],
         storage |-> FilterStorage_new(
             UnwrapOr(filters[k].name, GeneratedName(k - 1)),
             UnwrapOr(filters[k].max_kept_entries, config.default_max_kept_entries))]],
     total_size_bytes |-> 0,
     global_evictions |-> 0]

\* SpotStorage::filter_count
filter_count(st) == Len(st.filters)

\* SpotStorage::filter_names
filter_names(st) == [k \in 1..Len(st.filters) |-> st.filters[k].storage.name]

RECURSIVE FindByName(_, _, _)
\* the find_map of get_filter_by_name from position k on: the index of the
\* first queue that has the name
FindByName(st, name, k) ==
    IF k > Len(st.filters) THEN None
    ELSE IF st.filters[k].storage.name = name THEN Some(k - 1)
    ELSE FindByName(st, name, k + 1)

\* SpotStorage::get_filter_by_name; the lock it returns is identified by
\* the index of its queue
get_filter_by_name(st, name) == FindByName(st, name, 1)

\* the FilterStorage behind the lock of filters[idx] (idx is 0-based)
StorageAt(st, idx) == st.filters[idx + 1].storage

RECURSIVE ScanLargest(_, _, _, _)
\* the scan loop of evict_from_largest_filter from position k on: the
\* Option<usize> max_idx it ends with
ScanLargest(st, k, max_len, max_idx) ==
    IF k > Len(st.filters) THEN max_idx
    ELSE IF len(st.filters[k].storage) > max_len
         THEN ScanLargest(st, k + 1, len(st.filters[k].storage), Some(k - 1))
         ELSE ScanLargest(st, k + 1, max_len, max_idx)

\* SpotStorage::evict_from_largest_filter: the storage after the call and
\* the bool it returns
evict_from_largest_filter(st) ==
    LET max_idx == ScanLargest(st, 1, 0, None) IN
    IF IsSome(max_idx)
    THEN LET idx == Unwrap(max_idx)
             popped == pop_oldest(StorageAt(st, idx))
         IN  IF IsSome(popped.removed)
             THEN [st |-> [st EXCEPT !.filters[idx + 1].storage = popped.fs,
                                     !.total_size_bytes = @ - Unwrap(popped.removed)],
                   evicted |-> TRUE]
             ELSE [st |-> st, evicted |-> FALSE]
    ELSE [st |-> st, evicted |-> FALSE]

\* mutant of GlobalLimitExceeded: the size of the incoming spot is left out
GlobalLimitExceeded_NoSpot(st, spot_size) ==
    st.total_size_bytes > st.global_max_size

\* the condition of the global-limit loop of store_spot
GlobalLimitExceeded(st, spot_size) ==
    st.total_size_bytes + spot_size > st.global_max_size

RECURSIVE EnforceGlobalLimit(_, _)
\* the global-limit loop of store_spot: the storage after it and whether
\* store_spot goes on (FALSE: the early return)
EnforceGlobalLimit(st, spot_size) ==
    IF GlobalLimitExceeded(st, spot_size)
    THEN LET r == evict_from_largest_filter(st) IN
         IF ~r.evicted
         THEN [st |-> r.st, proceed |-> FALSE]
         ELSE EnforceGlobalLimit(
                  [r.st EXCEPT !.global_evictions = @ + 1], spot_size)
    ELSE [st |-> st, proceed |-> TRUE]

\* mutant of FilterLimitReached: off by one, the queue may exceed its cap
FilterLimitReached_OffByOne(fs) == len(fs) > fs.max_kept_entries

\* the condition of the per-filter loop of store_spot
FilterLimitReached(fs) == len(fs) >= fs.max_kept_entries

RECURSIVE EnforceFilterLimit(_, _)
\* the per-filter loop of store_spot on queue filter_index
EnforceFilterLimit(st, filter_index) ==
    IF FilterLimitReached(StorageAt(st, filter_index))
    THEN LET popped == pop_oldest(StorageAt(st, filter_index)) IN
         IF IsSome(popped.removed)
         THEN EnforceFilterLimit(
                  [st EXCEPT !.filters[filter_index + 1].storage = popped.fs,
                             !.total_size_bytes = @ - Unwrap(popped.removed)],
                  filter_index)
         ELSE st
    ELSE st

\* SpotStorage::store_spot
store_spot(st, filter_index, spot) ==
    LET spot_size == json_size(spot)
        g == EnforceGlobalLimit(st, spot_size)
    IN  IF ~g.proceed THEN g.st
        ELSE LET f == EnforceFilterLimit(g.st, filter_index) IN
             [f EXCEPT !.filters[filter_index + 1].storage = push(@, spot),
                       !.total_size_bytes = @ + json_size(spot)]

RECURSIVE TryStoreLoop_StoreAll(_, _, _, _)
\* mutant of TryStoreLoop: the spot is stored into every queue, the matched
\* vector is as before
TryStoreLoop_StoreAll(st, spot, k, matched_so_far) ==
    IF k > Len(st.filters) THEN [st |-> st, matched |-> matched_so_far]
    ELSE TryStoreLoop_StoreAll(store_spot(st, k - 1, spot), spot, k + 1,
             IF matches(st.filters[k].filter, spot)
             THEN Append(matched_so_far, k - 1) ELSE matched_so_far)

RECURSIVE TryStoreLoop(_, _, _, _)
\* the loop of try_store from position k on, with the matched vector so far
TryStoreLoop(st, spot, k, matched_so_far) ==
    IF k > Len(st.filters) THEN [st |-> st, matched |-> matched_so_far]
    ELSE IF matches(st.filters[k].filter, spot)
         THEN TryStoreLoop(store_spot(st, k - 1, spot), spot, k + 1,
                           Append(matched_so_far, k - 1))
         ELSE TryStoreLoop(st, spot, k + 1, matched_so_far)

\* SpotStorage::try_store: the storage after the call and the Vec<usize>
\* it returns
try_store(st, spot) == TryStoreLoop(st, spot, 1, << >>)

(***************************************************************************)
(* Inputs: filter lists and storage configurations                         *)
(***************************************************************************)
\* the filters of test_try_store_matches: neither sets max_kept_entries
TryStoreFilters ==
    << [DefaultFilter EXCEPT !.dx_call = Some(<< <<"W","6","*">> >>)],
       [DefaultFilter EXCEPT !.bands = Some(<< <<"2","0","m">> >>)] >>

\* two filters that match every spot: the first named and with its own
\* max_kept_entries, the second unnamed and on the storage default
CatchAllFilters(cap) ==
    << [DefaultFilter EXCEPT !.name = Some("filter_a"),
                             !.max_kept_entries = Some(cap)],
       DefaultFilter >>

FilterLists == {TryStoreFilters} \cup {CatchAllFilters(c) : c \in 0..MaxCap}

\* global_max_size: room for the smaller spot only, for two spots, for
\* three spots, and the default of StorageConfig (10MB)
GlobalSizes == {json_size(SpotW1AW), 2 * json_size(SpotW6JSV),
                3 * json_size(SpotW6JSV), 10 * 1024 * 1024}

StorageConfigs ==
    [default_max_kept_entries : 0..MaxCap, global_max_size : GlobalSizes]

(***************************************************************************)
(* State                                                                   *)
(***************************************************************************)
VARIABLES
    storage,   \* the SpotStorage
    matched,   \* the Vec<usize> returned by the last try_store
    last,      \* history: the last call of the storage API and the
               \* store_spot calls it made
    stores,    \* history: per queue, the number of store_spot calls so far
    assigned,  \* history: per queue, the seq of every enqueue so far, in order
    pressured, \* history: whether a global check of store_spot was ever true
    nops       \* history: number of calls of the storage API

vars == <<storage, matched, last, stores, assigned, pressured, nops>>

\* the telnet client (client.rs) and the event loop that owns the receiver
\* of its channel (main.rs)
VARIABLES
    auto_reconnect, \* RbnClientConfig::auto_reconnect
    cstate,         \* position of the connection task
    chan,           \* the events buffered in the mpsc channel, oldest first
    rx_alive,       \* whether the receiver of the channel still exists
    line_buf,       \* the line read last, Some while its send is pending
    shutdown,       \* value of the shutdown watch channel
    main_pc,        \* position of the event loop: "running" or "exited"
    main_exit,      \* history: which branch of the select! ended the loop
    attempts,       \* history: connection attempts started (saturating)
    lines_read,     \* history: the lines read in STREAMING, in order
    received,       \* history: the lines of the Line events the loop got
    emitted,        \* history: the kinds of the events sent for the current
                    \* attempt, in order, a run of Line events kept as one
    exit_cause,     \* history: why the current attempt ended
    send_failed     \* history: whether a send found the receiver gone

cvars == <<auto_reconnect, cstate, chan, rx_alive, line_buf, shutdown, main_pc,
           main_exit, attempts, lines_read, received, emitted, exit_cause,
           send_failed>>

\* the parser applied to one input line (parser.rs) and the dispatcher
\* process_line with the statistics it records into (main.rs, stats.rs)
VARIABLES
    pline,        \* the input line
    plooks,       \* Some(looks_like_spot(pline)) once it has been called
    presult,      \* Some(parse_spot(pline)) once it has been called
    cw_only,      \* the cw_only argument of process_line
    with_storage, \* whether process_line is given Some(storage)
    stats,        \* the SpotStats
    handled,      \* history: number of lines process_line has handled
    filtered      \* history: number of spots dropped by the cw_only test

xvars == <<pline, plooks, presult, cw_only, with_storage, stats, handled,
           filtered>>

\* threads that use the storage and the statistics concurrently: callers of
\* store_spot, the handler of GET /spots/filter/{name} (metrics.rs), a caller
\* of record_spot and a caller of summary (stats.rs)
VARIABLES
    locks,       \* per queue, the state of its RwLock
    wst,         \* per caller of store_spot, its position and locals
    hconfigured, \* whether MetricsState::storage is Some
    hst,         \* position and locals of the handler
    resp,        \* the last response of the handler, None before the first
    snap,        \* history: the queue as it was when the handler locked it
    nstores,     \* history: number of store_spot calls started
    nreqs,       \* history: number of requests started
    rst,         \* position and locals of the caller of record_spot
    sst,         \* position and locals of the caller of summary
    nrecs        \* history: number of record_spot calls started

kvars == <<locks, wst, hconfigured, hst, resp, snap, nstores, nreqs, rst, sst,
           nrecs>>

\* one call of a function that has no state (filter.rs, spot.rs, stats.rs),
\* and the start of the program up to the client (main.rs)
VARIABLES
    call,  \* the function called and its arguments
    ret,   \* Some(the value it returned), None before it returns
    boot,  \* main: its position and the Config it loaded
    login, \* handle_login: its Vec buf and what it has read and written
    poll   \* a client polling GET /spots/filter/{name}: its cursor

pvars == <<call, ret, boot, login, poll>>

allvars == <<vars, cvars, xvars, kvars, pvars>>

\* no function under call, main not modelled
CallsIdle ==
    /\ call = << >>
    /\ ret = None
    /\ boot = << >>
    /\ login = << >>
    /\ poll = << >>

\* no concurrent threads
ThreadsIdle ==
    /\ locks = << >>
    /\ wst = << >>
    /\ hconfigured = FALSE
    /\ hst = << >>
    /\ resp = None
    /\ snap = None
    /\ nstores = 0
    /\ nreqs = 0
    /\ rst = << >>
    /\ sst = << >>
    /\ nrecs = 0

\* parser and dispatcher not in use
ParserIdle ==
    /\ pline = << >>
    /\ plooks = None
    /\ presult = None
    /\ cw_only = FALSE
    /\ with_storage = FALSE
    /\ stats = << >>
    /\ handled = 0
    /\ filtered = 0

\* the client before connect() is called: no task, no channel
ClientIdle ==
    /\ auto_reconnect = TRUE
    /\ cstate = "IDLE"
    /\ chan = << >>
    /\ rx_alive = FALSE
    /\ line_buf = None
    /\ shutdown = FALSE
    /\ main_pc = "idle"
    /\ main_exit = "none"
    /\ attempts = 0
    /\ lines_read = << >>
    /\ received = << >>
    /\ emitted = << >>
    /\ exit_cause = "none"
    /\ send_failed = FALSE

\* the queue indices (0-based, as in the code)
FilterIndices == 0..(filter_count(storage) - 1)

\* history record of one store_spot call made in storage state st: whether
\* its global check was true, whether it enqueued its spot, and the latest
\* seq of its queue when it returned
StoreCall(st, filter_index, spot) ==
    [filter_index |-> filter_index, spot |-> spot,
     pressured |-> GlobalLimitExceeded(st, json_size(spot)),
     enqueued |-> EnforceGlobalLimit(st, json_size(spot)).proceed,
     seq |-> latest_seq(StorageAt(store_spot(st, filter_index, spot), filter_index))]

RECURSIVE TryStoreCalls(_, _, _)
\* history records of the store_spot calls try_store makes from position k on
TryStoreCalls(st, spot, k) ==
    IF k > Len(st.filters) THEN << >>
    ELSE IF matches(st.filters[k].filter, spot)
         THEN << StoreCall(st, k - 1, spot) >>
                \o TryStoreCalls(store_spot(st, k - 1, spot), spot, k + 1)
         ELSE TryStoreCalls(st, spot, k + 1)

\* the history variables after an API call that made the store_spot calls
\* `calls`
Record(op, spot, calls) ==
    /\ last' = [op |-> op, spot |-> spot, calls |-> calls]
    /\ stores' = [i \in DOMAIN stores |->
          stores[i] + Cardinality({k \in 1..Len(calls) : calls[k].filter_index = i})]
    /\ assigned' = [i \in DOMAIN assigned |->
          assigned[i] \o SelectSeq([k \in 1..Len(calls) |->
                 IF calls[k].filter_index = i /\ calls[k].enqueued
                 THEN calls[k].seq ELSE -1], LAMBDA x : x >= 0)]
    /\ pressured' = (pressured \/ \E k \in 1..Len(calls) : calls[k].pressured)
    /\ nops' = nops + 1

Init ==
    /\ CallsIdle
    /\ \E config \in StorageConfigs, filters \in FilterLists :
          storage = SpotStorage_new(config, filters)
    /\ matched = << >>
    /\ last = [op |-> "new", spot |-> SpotW1AW, calls |-> << >>]
    /\ stores = [i \in FilterIndices |-> 0]
    /\ assigned = [i \in FilterIndices |-> << >>]
    /\ pressured = FALSE
    /\ nops = 0
    /\ ClientIdle
    /\ ParserIdle
    /\ ThreadsIdle

\* a call store_spot(filter_index, spot)
Store(filter_index, spot) ==
    /\ nops < MaxOps
    /\ storage' = store_spot(storage, filter_index, spot)
    /\ Record("store_spot", spot, << StoreCall(storage, filter_index, spot) >>)
    /\ UNCHANGED matched
    /\ UNCHANGED <<cvars, xvars, kvars, pvars>>

\* a call try_store(&spot)
TryStore(spot) ==
    /\ nops < MaxOps
    /\ LET r == try_store(storage, spot) IN
          /\ storage' = r.st
          /\ matched' = r.matched
    /\ Record("try_store", spot, TryStoreCalls(storage, spot, 1))
    /\ UNCHANGED <<cvars, xvars, kvars, pvars>>

Next ==
    \/ \E filter_index \in FilterIndices, spot \in Spots :
          Store(filter_index, spot)
    \/ \E spot \in Spots : TryStore(spot)

Spec == Init /\ [][Next]_vars

(***************************************************************************)
(* Properties                                                              *)
(***************************************************************************)
\* the FilterStorage of queue i in the current state
Q(i) == StorageAt(storage, i)

\* the seqs of the retained entries of a queue, head to tail
RetainedSeqs(fs) == [k \in 1..Len(fs.spots) |-> fs.spots[k].seq]

RECURSIVE BytesOf(_)
\* sum of the serialized sizes of a sequence of StoredSpot
BytesOf(spots) ==
    IF spots = << >> THEN 0 ELSE json_size(Head(spots).spot) + BytesOf(Tail(spots))

RECURSIVE SumOver(_, _)
\* sum of f[i] over the indices 0..n
SumOver(f, n) == IF n < 0 THEN 0 ELSE f[n] + SumOver(f, n - 1)

\* the aggregate byte total over all queues, from the retained entries
AggregateBytes ==
    SumOver([i \in FilterIndices |-> BytesOf(Q(i).spots)], filter_count(storage) - 1)

\* the last API call made a store_spot call that enqueued its spot
LastEnqueued == \E k \in 1..Len(last.calls) : last.calls[k].enqueued

\* C1: after each store that enqueues its spot, the aggregate byte total over
\* all queues is at most the global budget global_max_size.
C1_GlobalBudget == LastEnqueued => AggregateBytes <= storage.global_max_size

\* C1 witness: a store that had to evict under the global budget and then
\* enqueued its spot
C1_Witness ==
    /\ \E k \in 1..Len(last.calls) : last.calls[k].enqueued /\ last.calls[k].pressured
    /\ storage.global_evictions >= 1
    /\ AggregateBytes > 0

\* C2: after each store into queue i that enqueues its spot, len(Q_i) is at
\* most the queue's effective cap max_kept_entries.
C2_PerQueueCap ==
    \A k \in 1..Len(last.calls) :
        last.calls[k].enqueued =>
            len(Q(last.calls[k].filter_index))
                <= Q(last.calls[k].filter_index).max_kept_entries

\* the bound of C2 restricted to the queues whose cap is at least 1
C2_CapAtLeastOne ==
    \A k \in 1..Len(last.calls) :
        (last.calls[k].enqueued
           /\ Q(last.calls[k].filter_index).max_kept_entries >= 1) =>
            len(Q(last.calls[k].filter_index))
                <= Q(last.calls[k].filter_index).max_kept_entries

\* C3: within each queue the seq given to each enqueue is strictly greater
\* than every seq assigned before in that queue, and the first is 1.
C3_SeqStrictlyIncreasing ==
    \A i \in FilterIndices :
        /\ assigned[i] # << >> => assigned[i][1] = 1
        /\ \A j, k \in 1..Len(assigned[i]) : j < k => assigned[i][j] < assigned[i][k]

\* C3 witness: a queue that was emptied by eviction and filled again, twice
C3_Witness ==
    \E i \in FilterIndices :
        /\ Len(assigned[i]) >= 3
        /\ Q(i).overflow_count >= 2
        /\ Q(i).max_kept_entries = 1
        /\ len(Q(i)) = 1

\* C4: the seqs of the retained entries of every queue are, head to tail,
\* the consecutive integers next_seq - len .. next_seq - 1.
C4_ContiguousSuffix ==
    \A i \in FilterIndices :
        RetainedSeqs(Q(i)) =
            [k \in 1..len(Q(i)) |-> Q(i).next_seq - len(Q(i)) + k - 1]

\* C4 witness: a queue that lost entries to its cap and to the global budget
\* and still retains two
C4_Witness ==
    \E i \in FilterIndices :
        /\ len(Q(i)) = 2
        /\ Q(i).overflow_count >= 2
        /\ storage.global_evictions >= 1
        /\ \A j \in FilterIndices \ {i} : assigned[j] = << >>

\* C5 (as claimed): latest_seq() of every queue equals the seq of the most
\* recently enqueued StoredSpot of that queue, and is 0 only if nothing was
\* ever enqueued into it.
C5_LatestSeqOfLastEnqueued ==
    \A i \in FilterIndices :
        latest_seq(Q(i)) = IF assigned[i] = << >> THEN 0 ELSE Last(assigned[i])

\* C5 (amended): latest_seq() of a queue that retains an entry equals the seq
\* of the most recently enqueued StoredSpot of that queue, and latest_seq()
\* is 0 exactly when the queue retains no entry.
C5_LatestSeqOfRetained ==
    \A i \in FilterIndices :
        /\ len(Q(i)) > 0 => latest_seq(Q(i)) = Last(assigned[i])
        /\ (latest_seq(Q(i)) = 0) <=> (len(Q(i)) = 0)

\* C5 witness: a queue whose only entry was evicted under the global budget
\* (latest_seq() is back to 0) beside a queue that retains two entries
C5_Witness ==
    \E i, j \in FilterIndices :
        /\ assigned[i] # << >> /\ len(Q(i)) = 0 /\ latest_seq(Q(i)) = 0
        /\ len(Q(j)) = 2 /\ latest_seq(Q(j)) = Last(assigned[j])

\* C6: for every queue and every cursor value since, get_spots_since(since)
\* is exactly the retained entries with seq > since, in strictly ascending
\* seq order, and get_spots_since(latest_seq()) is empty.
C6_SpotsSince ==
    \A i \in FilterIndices :
        /\ \A since \in 0..Q(i).next_seq :
              LET r == get_spots_since(Q(i), since) IN
              /\ {r[k] : k \in 1..Len(r)}
                    = {Q(i).spots[k] : k \in {n \in 1..len(Q(i)) : Q(i).spots[n].seq > since}}
              /\ \A k \in 1..(Len(r) - 1) : r[k].seq < r[k + 1].seq
        /\ get_spots_since(Q(i), latest_seq(Q(i))) = << >>

\* C6 witness: seqs 1..5 stored with a cap of 2, so that seqs 4 and 5 are
\* retained and the cursor 4 yields exactly the entry of seq 5
C6_Witness ==
    \E i \in FilterIndices :
        /\ RetainedSeqs(Q(i)) = <<4, 5>>
        /\ Q(i).max_kept_entries = 2
        /\ Len(get_spots_since(Q(i), 0)) = 2
        /\ get_spots_since(Q(i), 4) = << Q(i).spots[2] >>
        /\ get_spots_since(Q(i), 5) = << >>

\* C7: overflow_count of every queue equals the number of entries ever
\* removed from it (the enqueued entries that are no longer retained).
C7_OverflowCountsRemovals ==
    \A i \in FilterIndices :
        Q(i).overflow_count = Len(assigned[i]) - len(Q(i))

\* C7 witness: a queue that lost one entry to its cap and one to the global
\* budget (the only global eviction, and the other queue lost nothing)
C7_Witness ==
    \E i, j \in FilterIndices :
        /\ i # j
        /\ filter_count(storage) = 2
        /\ Q(i).overflow_count = 2
        /\ storage.global_evictions = 1
        /\ Q(j).overflow_count = 0

\* C8: as long as no global check of store_spot was true, global_evictions
\* is 0 and each queue's overflow_count is max(0, stores_i - C_i).
C8_Unpressured ==
    ~pressured =>
        /\ storage.global_evictions = 0
        /\ \A i \in FilterIndices :
              Q(i).overflow_count =
                  IF stores[i] - Q(i).max_kept_entries > 0
                  THEN stores[i] - Q(i).max_kept_entries ELSE 0

\* the statement of C8 restricted to storages whose caps are all at least 1
C8_UnpressuredCapAtLeastOne ==
    (~pressured /\ \A i \in FilterIndices : Q(i).max_kept_entries >= 1) =>
        /\ storage.global_evictions = 0
        /\ \A i \in FilterIndices :
              Q(i).overflow_count =
                  IF stores[i] - Q(i).max_kept_entries > 0
                  THEN stores[i] - Q(i).max_kept_entries ELSE 0

\* the largest and the smallest serialized size of a spot of the model
MaxSpotSize == CHOOSE n \in {json_size(s) : s \in Spots} :
                  \A s \in Spots : json_size(s) <= n
MinSpotSize == CHOOSE n \in {json_size(s) : s \in Spots} :
                  \A s \in Spots : json_size(s) >= n

\* the scenario of C9: two filters with max_kept_entries = 2, a global budget
\* that holds any three spots and no four, four stores into queue 0 (A) and
\* then one store into queue 1 (B)
Scenario ==
    /\ filter_count(storage) = 2
    /\ Q(0).max_kept_entries = 2 /\ Q(1).max_kept_entries = 2
    /\ storage.global_max_size >= 3 * MaxSpotSize
    /\ storage.global_max_size < 4 * MinSpotSize
    /\ stores[0] = 4 /\ stores[1] = 1
    /\ Len(last.calls) = 1 /\ last.calls[1].filter_index = 1

\* C9 (as claimed): the scenario ends with queue A holding seqs {3,4}, queue
\* B holding seq 1, and global_evictions >= 1.
C9_ScenarioWithGlobalEviction ==
    Scenario =>
        /\ RetainedSeqs(Q(0)) = <<3, 4>>
        /\ RetainedSeqs(Q(1)) = <<1>>
        /\ storage.global_evictions >= 1

\* C9 (amended): the scenario ends with queue A holding seqs {3,4}, queue B
\* holding seq 1, and global_evictions = 0.
C9_ScenarioNoGlobalEviction ==
    Scenario =>
        /\ RetainedSeqs(Q(0)) = <<3, 4>>
        /\ RetainedSeqs(Q(1)) = <<1>>
        /\ storage.global_evictions = 0

\* C9 witness: the scenario has been run to its end
C9_Witness == Scenario /\ nops = 5 /\ len(Q(0)) = 2 /\ len(Q(1)) = 1

\* the indices of the filters of the storage that match spot
MatchingIndices(spot) ==
    {i \in FilterIndices : matches(storage.filters[i + 1].filter, spot)}

\* queue i lost d entries from its head in this step and got none
OnlyEvicted(i, d) ==
    /\ StorageAt(storage', i).spots = SubSeq(Q(i).spots, d + 1, len(Q(i)))
    /\ StorageAt(storage', i).next_seq = Q(i).next_seq
    /\ StorageAt(storage', i).overflow_count = Q(i).overflow_count + d
    /\ StorageAt(storage', i).current_size_bytes
          = Q(i).current_size_bytes - BytesOf(SubSeq(Q(i).spots, 1, d))

\* C10: try_store(spot) returns exactly the indices of the filters that match
\* spot, ascending, calls store_spot for exactly those, and enqueues nothing
\* into a queue whose filter does not match (such a queue can only lose
\* entries from its head to the global budget).
C10_TryStoreMatches ==
    [][last'.op = "try_store" =>
         /\ {matched'[k] : k \in 1..Len(matched')} = MatchingIndices(last'.spot)
         /\ \A k \in 1..(Len(matched') - 1) : matched'[k] < matched'[k + 1]
         /\ [k \in 1..Len(last'.calls) |-> last'.calls[k].filter_index] = matched'
         /\ \A i \in FilterIndices \ MatchingIndices(last'.spot) :
               /\ \E d \in 0..len(Q(i)) : OnlyEvicted(i, d)
               /\ assigned'[i] = assigned[i]
               /\ stores'[i] = stores[i]
      ]_vars

\* C10 witness: a try_store that matched the second filter only, while the
\* queue of the first filter retains entries
C10_Witness ==
    /\ last.op = "try_store"
    /\ matched = <<1>>
    /\ MatchingIndices(last.spot) = {1}
    /\ len(Q(0)) > 0
    /\ len(Q(1)) > 0

\* C36: a call of store_spot that returns without enqueuing its spot
\* leaves the storage as it was: the entries of every queue, next_seq,
\* overflow_count, the byte counters and global_evictions.
C36_AbortLeavesStorage ==
    [][(last'.op = "store_spot" /\ ~last'.calls[1].enqueued) =>
          storage' = storage]_vars

\* the spot try_store has just stored is the newest entry of queue i
NewestOf(i, spot) ==
    /\ len(Q(i)) > 0
    /\ Last(Q(i).spots).spot = spot
    /\ Last(Q(i).spots).seq = latest_seq(Q(i))
    /\ Last(Q(i).spots).seq = Q(i).next_seq - 1

\* C37: when try_store(spot) has returned, every queue whose index is in
\* the returned list retains the spot as its newest entry, also when the
\* spot matched several filters and the global budget was under pressure.
C37_TryStoreRetains ==
    last.op = "try_store" =>
       \A k \in 1..Len(matched) : NewestOf(matched[k], last.spot)

\* C11: the effective cap of every queue (the filter's max_kept_entries if
\* specified, otherwise default_max_kept_entries) is at least 1.
C11_CapAtLeastOne ==
    \A i \in FilterIndices : Q(i).max_kept_entries >= 1

(***************************************************************************)
(* client.rs: the connection task, its event channel, and the event loop   *)
(* of main.rs that receives from it                                        *)
(***************************************************************************)
\* capacity of the event channel created by connect()
ChannelCapacity == 1000
\* largest channel capacity explored
MaxChannel == 2
\* number of lines the server sends, over all connections
MaxLines == 3
\* value at which the history counter of attempts saturates
MaxAttempts == 3

\* the capacity the model runs with
Capacity == IF MaxChannel < ChannelCapacity THEN MaxChannel ELSE ChannelCapacity

\* RbnEvent; `line` is 0 except for Line
RbnEvent(kind, line) == [kind |-> kind, line |-> line]

NoExit == [from |-> "none", why |-> "none"]

\* the storage variables while only the client runs
StorageIdle ==
    /\ storage = SpotStorage_new(
           [default_max_kept_entries |-> 50, global_max_size |-> 10 * 1024 * 1024],
           TryStoreFilters)
    /\ matched = << >>
    /\ last = [op |-> "new", spot |-> SpotW1AW, calls |-> << >>]
    /\ stores = [i \in FilterIndices |-> 0]
    /\ assigned = [i \in FilterIndices |-> << >>]
    /\ pressured = FALSE
    /\ nops = 0

\* the kinds sent for the current attempt after one more event of `kind`
Emit(kind) ==
    IF kind = "Line" /\ emitted # << >> /\ Last(emitted) = "Line"
    THEN emitted ELSE Append(emitted, kind)

\* a bounded mpsc sender has a permit for one more message
HasCapacity_Unbounded(ch) == TRUE
HasCapacity(ch) == Len(ch) < Capacity

\* completion of tx.send(ev).await: an error as soon as the receiver is
\* gone, otherwise the event is buffered once the channel has room
Send(ev) ==
    /\ (~rx_alive \/ HasCapacity(chan))
    /\ chan' = IF rx_alive THEN Append(chan, ev) ELSE chan
    /\ send_failed' = (send_failed \/ ~rx_alive)
    /\ emitted' = Emit(ev.kind)

\* connect_and_stream returns Err(e) from state `from`
ReturnErr_NoError(from, why) ==
    /\ cstate' = "SEND_DISCONNECTED"
    /\ exit_cause' = [from |-> from, why |-> why]
ReturnErr(from, why) ==
    /\ cstate' = "SEND_ERROR"
    /\ exit_cause' = [from |-> from, why |-> why]

\* connect_and_stream returns Ok(()) from STREAMING
ReturnOk(why) ==
    /\ cstate' = "SEND_DISCONNECTED"
    /\ exit_cause' = [from |-> "STREAMING", why |-> why]

\* RbnClient::connect followed by the start of the event loop
ClientInit ==
    /\ CallsIdle
    /\ StorageIdle
    /\ auto_reconnect \in BOOLEAN
    /\ cstate = "CONNECTING"
    /\ chan = << >>
    /\ rx_alive = TRUE
    /\ line_buf = None
    /\ shutdown = FALSE
    /\ main_pc = "running"
    /\ main_exit = "none"
    /\ attempts = 1
    /\ lines_read = << >>
    /\ received = << >>
    /\ emitted = << >>
    /\ exit_cause = NoExit
    /\ send_failed = FALSE
    /\ ParserIdle
    /\ ThreadsIdle

\* timeout(connect_timeout, TcpStream::connect(..))
Connect ==
    /\ cstate = "CONNECTING"
    /\ \E outcome \in {"connected", "timeout", "failed"} :
          IF outcome = "connected"
          THEN cstate' = "AWAIT_PROMPT" /\ UNCHANGED exit_cause
          ELSE ReturnErr("CONNECTING", "connect_" \o outcome)
    /\ UNCHANGED <<auto_reconnect, chan, rx_alive, line_buf, shutdown, main_pc,
                   main_exit, attempts, lines_read, received, emitted,
                   send_failed>>

\* handle_login: the loop that waits for the "call:" prompt
AwaitPrompt ==
    /\ cstate = "AWAIT_PROMPT"
    /\ \E outcome \in {"prompt", "eof", "too_long", "read_error", "timeout"} :
          IF outcome = "prompt"
          THEN cstate' = "SENDING_CALL" /\ UNCHANGED exit_cause
          ELSE ReturnErr("AWAIT_PROMPT", "login_" \o outcome)
    /\ UNCHANGED <<auto_reconnect, chan, rx_alive, line_buf, shutdown, main_pc,
                   main_exit, attempts, lines_read, received, emitted,
                   send_failed>>

\* handle_login: write_all(callsign), write_all("\r\n"), flush
SendCall ==
    /\ cstate = "SENDING_CALL"
    /\ \E outcome \in {"written", "write_error"} :
          IF outcome = "written"
          THEN cstate' = "AWAIT_READY" /\ UNCHANGED exit_cause
          ELSE ReturnErr("SENDING_CALL", "login_" \o outcome)
    /\ UNCHANGED <<auto_reconnect, chan, rx_alive, line_buf, shutdown, main_pc,
                   main_exit, attempts, lines_read, received, emitted,
                   send_failed>>

\* handle_login: the loop that waits for '>'; the size limit and the timeout
\* count as success
AwaitReady ==
    /\ cstate = "AWAIT_READY"
    /\ \E outcome \in {"prompt", "too_long", "timeout", "eof", "read_error"} :
          IF outcome \in {"prompt", "too_long", "timeout"}
          THEN cstate' = "SEND_CONNECTED" /\ UNCHANGED exit_cause
          ELSE ReturnErr("AWAIT_READY", "login_" \o outcome)
    /\ UNCHANGED <<auto_reconnect, chan, rx_alive, line_buf, shutdown, main_pc,
                   main_exit, attempts, lines_read, received, emitted,
                   send_failed>>

\* let _ = tx.send(RbnEvent::Connected).await
SendConnected ==
    /\ cstate = "SEND_CONNECTED"
    /\ Send(RbnEvent("Connected", 0))
    /\ cstate' = "STREAMING"
    /\ UNCHANGED <<auto_reconnect, rx_alive, line_buf, shutdown, main_pc,
                   main_exit, attempts, lines_read, received, exit_cause>>

\* timeout(read_timeout, reader.read_line(&mut line_buf)); the server sends
\* the lines 1, 2, ... and at most MaxLines of them
StreamRead ==
    /\ cstate = "STREAMING"
    /\ \/ /\ Len(lines_read) < MaxLines
          /\ line_buf' = Some(Len(lines_read) + 1)
          /\ lines_read' = Append(lines_read, Len(lines_read) + 1)
          /\ cstate' = "SEND_LINE"
          /\ UNCHANGED exit_cause
       \/ /\ ReturnOk("eof")
          /\ UNCHANGED <<line_buf, lines_read>>
       \/ /\ \E why \in {"read_error", "read_timeout"} : ReturnErr("STREAMING", why)
          /\ UNCHANGED <<line_buf, lines_read>>
    /\ UNCHANGED <<auto_reconnect, chan, rx_alive, shutdown, main_pc, main_exit,
                   attempts, received, emitted, send_failed>>

\* if tx.send(RbnEvent::Line(..)).await.is_err() { return Ok(()) }
SendLine ==
    /\ cstate = "SEND_LINE"
    /\ Send(RbnEvent("Line", Unwrap(line_buf)))
    /\ line_buf' = None
    /\ IF rx_alive
       THEN cstate' = "STREAMING" /\ UNCHANGED exit_cause
       ELSE ReturnOk("receiver_dropped")
    /\ UNCHANGED <<auto_reconnect, rx_alive, shutdown, main_pc, main_exit,
                   attempts, lines_read, received>>

\* Err(e) => { let _ = tx.send(RbnEvent::Error(e)).await; }
SendError ==
    /\ cstate = "SEND_ERROR"
    /\ Send(RbnEvent("Error", 0))
    /\ cstate' = "SEND_DISCONNECTED"
    /\ UNCHANGED <<auto_reconnect, rx_alive, line_buf, shutdown, main_pc,
                   main_exit, attempts, lines_read, received, exit_cause>>

\* if !self.config.auto_reconnect { break; } else sleep
AfterDisconnected_AlwaysSleep(reconnect) == "SLEEPING"
AfterDisconnected(reconnect) == IF ~reconnect THEN "EXITED" ELSE "SLEEPING"

\* let _ = tx.send(RbnEvent::Disconnected(..)).await, then the test of
\* auto_reconnect
SendDisconnected ==
    /\ cstate = "SEND_DISCONNECTED"
    /\ Send(RbnEvent("Disconnected", 0))
    /\ cstate' = AfterDisconnected(auto_reconnect)
    /\ UNCHANGED <<auto_reconnect, rx_alive, line_buf, shutdown, main_pc,
                   main_exit, attempts, lines_read, received, exit_cause>>

\* sleep(reconnect_delay) returns and the loop starts the next attempt
Sleep ==
    /\ cstate = "SLEEPING"
    /\ cstate' = "CONNECTING"
    /\ attempts' = IF attempts < MaxAttempts THEN attempts + 1 ELSE attempts
    /\ emitted' = << >>
    /\ exit_cause' = NoExit
    /\ UNCHANGED <<auto_reconnect, chan, rx_alive, line_buf, shutdown, main_pc,
                   main_exit, lines_read, received, send_failed>>

TaskStep ==
    \/ Connect \/ AwaitPrompt \/ SendCall \/ AwaitReady \/ SendConnected
    \/ StreamRead \/ SendLine \/ SendError \/ SendDisconnected \/ Sleep

\* events.recv() yields Some(event)
MainRecv ==
    /\ main_pc = "running"
    /\ chan # << >>
    /\ chan' = Tail(chan)
    /\ received' = IF Head(chan).kind = "Line"
                   THEN Append(received, Head(chan).line) ELSE received
    /\ UNCHANGED <<auto_reconnect, cstate, rx_alive, line_buf, shutdown, main_pc,
                   main_exit, attempts, lines_read, emitted, exit_cause,
                   send_failed>>

\* events.recv() yields None: the channel is empty and its sender is gone
MainClosed ==
    /\ main_pc = "running"
    /\ chan = << >>
    /\ cstate = "EXITED"
    /\ main_pc' = "exited"
    /\ main_exit' = "channel_closed"
    /\ rx_alive' = FALSE
    /\ UNCHANGED <<auto_reconnect, cstate, chan, line_buf, shutdown, attempts,
                   lines_read, received, emitted, exit_cause, send_failed>>

\* mutant of MainShutdown: the select! looks at the events first, and at
\* the shutdown signal only when none is buffered
MainShutdown_EventsFirst ==
    /\ main_pc = "running"
    /\ shutdown
    /\ chan = << >>
    /\ main_pc' = "exited"
    /\ main_exit' = "shutdown"
    /\ rx_alive' = FALSE
    /\ chan' = << >>
    /\ UNCHANGED <<auto_reconnect, cstate, line_buf, shutdown, attempts,
                   lines_read, received, emitted, exit_cause, send_failed>>

\* shutdown_rx.changed() with *shutdown_rx.borrow(): the loop breaks and the
\* receiver is dropped with what it still buffers
MainShutdown ==
    /\ main_pc = "running"
    /\ shutdown
    /\ main_pc' = "exited"
    /\ main_exit' = "shutdown"
    /\ rx_alive' = FALSE
    /\ chan' = << >>
    /\ UNCHANGED <<auto_reconnect, cstate, line_buf, shutdown, attempts,
                   lines_read, received, emitted, exit_cause, send_failed>>

MainStep == MainRecv \/ MainClosed \/ MainShutdown

\* shutdown_tx.send(true) of the signal handler or of the max_runtime timer
ShutdownSignal ==
    /\ ~shutdown
    /\ shutdown' = TRUE
    /\ UNCHANGED <<auto_reconnect, cstate, chan, rx_alive, line_buf, main_pc,
                   main_exit, attempts, lines_read, received, emitted,
                   exit_cause, send_failed>>

ClientNext ==
    \/ Connect /\ UNCHANGED <<vars, xvars, kvars, pvars>>
    \/ AwaitPrompt /\ UNCHANGED <<vars, xvars, kvars, pvars>>
    \/ SendCall /\ UNCHANGED <<vars, xvars, kvars, pvars>>
    \/ AwaitReady /\ UNCHANGED <<vars, xvars, kvars, pvars>>
    \/ SendConnected /\ UNCHANGED <<vars, xvars, kvars, pvars>>
    \/ StreamRead /\ UNCHANGED <<vars, xvars, kvars, pvars>>
    \/ SendLine /\ UNCHANGED <<vars, xvars, kvars, pvars>>
    \/ SendError /\ UNCHANGED <<vars, xvars, kvars, pvars>>
    \/ SendDisconnected /\ UNCHANGED <<vars, xvars, kvars, pvars>>
    \/ Sleep /\ UNCHANGED <<vars, xvars, kvars, pvars>>
    \/ MainRecv /\ UNCHANGED <<vars, xvars, kvars, pvars>>
    \/ MainClosed /\ UNCHANGED <<vars, xvars, kvars, pvars>>
    \/ MainShutdown /\ UNCHANGED <<vars, xvars, kvars, pvars>>
    \/ ShutdownSignal /\ UNCHANGED <<vars, xvars, kvars, pvars>>

ClientSpec == ClientInit /\ [][ClientNext]_allvars

\* the spawned task and the event loop are both scheduled by the runtime;
\* every network wait of the task carries a timeout and the sleep ends, so a
\* step that stays possible is taken.  The shutdown signal is the
\* environment's and has no fairness.
ClientFairSpec ==
    /\ ClientSpec
    /\ WF_allvars(TaskStep /\ UNCHANGED <<vars, xvars, kvars, pvars>>)
    /\ WF_allvars(MainStep /\ UNCHANGED <<vars, xvars, kvars, pvars>>)

\* tokio::select! without `biased` polls its branches in random order, so
\* a branch that stays ready is taken however many events arrive: each
\* branch of the event loop is fair by itself
ShutdownFairSpec ==
    /\ ClientSpec
    /\ WF_allvars(TaskStep /\ UNCHANGED <<vars, xvars, kvars, pvars>>)
    /\ WF_allvars(MainRecv /\ UNCHANGED <<vars, xvars, kvars, pvars>>)
    /\ WF_allvars(MainClosed /\ UNCHANGED <<vars, xvars, kvars, pvars>>)
    /\ WF_allvars(MainShutdown /\ UNCHANGED <<vars, xvars, kvars, pvars>>)

(***************************************************************************)
(* Properties of the client                                                *)
(***************************************************************************)
\* connect_and_stream has returned and the Disconnected event is not yet sent
AttemptEnded == cstate \in {"SEND_ERROR", "SEND_DISCONNECTED"}

\* the Disconnected event of the current attempt has been sent
AfterAttempt == cstate \in {"SLEEPING", "EXITED"}

\* number of positions of seq that hold x
Count(seq, x) == Cardinality({k \in 1..Len(seq) : seq[k] = x})

\* the lines of the Line events buffered in a channel, oldest first
RECURSIVE LinesOf(_)
LinesOf(ch) ==
    IF ch = << >> THEN << >>
    ELSE IF Head(ch).kind = "Line" THEN << Head(ch).line >> \o LinesOf(Tail(ch))
    ELSE LinesOf(Tail(ch))

\* C12: once a send has found the receiver dropped, the task starts no
\* other connection attempt, whatever auto_reconnect is.
C12_NoAttemptAfterFailedSend ==
    ~(send_failed /\ cstate = "CONNECTING")

\* C13: when an attempt has ended, with auto_reconnect the task sleeps and
\* then re-enters CONNECTING; without it the task exits after its first
\* attempt, and the receiver, as long as it exists, then gets end-of-channel.
C13_ReconnectOrExit ==
    /\ [](cstate = "EXITED" => ~auto_reconnect /\ attempts = 1)
    /\ ((auto_reconnect /\ AttemptEnded) ~> (cstate = "SLEEPING"))
    /\ ((cstate = "SLEEPING") ~> (cstate = "CONNECTING"))
    /\ ((~auto_reconnect /\ AttemptEnded) ~> (cstate = "EXITED"))
    /\ ((cstate = "EXITED") ~> (main_exit = "channel_closed" \/ ~rx_alive))

\* a second attempt has begun after the first one ended
C13_Witness ==
    auto_reconnect /\ attempts = 2 /\ cstate = "CONNECTING" /\ rx_alive

\* C14: an attempt that left AWAIT_PROMPT, AWAIT_READY or STREAMING sends
\* exactly one Disconnected, as its last event and not before it has ended;
\* after end-of-file in STREAMING it sends no Error; after a read timeout, a
\* read error or a login failure it sends exactly one Error, immediately
\* before the Disconnected.
C14_ExitEvents ==
    /\ ~AfterAttempt => Count(emitted, "Disconnected") = 0
    /\ (AfterAttempt /\ exit_cause.from \in {"AWAIT_PROMPT", "AWAIT_READY", "STREAMING"}) =>
          /\ Count(emitted, "Disconnected") = 1
          /\ Last(emitted) = "Disconnected"
          /\ exit_cause.why = "eof" => Count(emitted, "Error") = 0
          /\ (\/ exit_cause.why \in {"read_error", "read_timeout"}
              \/ exit_cause.from \in {"AWAIT_PROMPT", "AWAIT_READY"}) =>
                /\ Count(emitted, "Error") = 1
                /\ Len(emitted) >= 2
                /\ emitted[Len(emitted) - 1] = "Error"

\* a streaming connection that delivered lines ended by a read timeout
C14_Witness ==
    /\ AfterAttempt
    /\ exit_cause = [from |-> "STREAMING", why |-> "read_timeout"]
    /\ emitted = << "Connected", "Line", "Error", "Disconnected" >>

\* C15: the channel never buffers more events than its capacity; while the
\* receiver exists, the lines read in STREAMING are, in order and once
\* each, the lines received, then the lines buffered, then at most the one
\* line whose send is pending (so no line is read while a send waits).
C15_Backpressure ==
    /\ Len(chan) <= Capacity
    /\ Capacity <= ChannelCapacity
    /\ rx_alive =>
          lines_read = received \o LinesOf(chan)
                          \o (IF cstate = "SEND_LINE" THEN line_buf ELSE << >>)

\* the task waits in the send of a line on a full channel
C15_Witness ==
    /\ rx_alive
    /\ Len(chan) = Capacity
    /\ cstate = "SEND_LINE"
    /\ received # << >>

\* C34: once the shutdown signal is set the event loop exits, also while
\* events keep arriving; it exits when the channel is closed (the task has
\* ended and nothing is buffered); once it has exited it stays so and no
\* further line is handed to process_line.
C34_ShutdownExits ==
    /\ shutdown ~> (main_pc = "exited")
    /\ (cstate = "EXITED" /\ chan = << >>) ~> (main_pc = "exited")
    /\ [][main_pc = "exited" =>
             main_pc' = "exited" /\ received' = received]_allvars

\* the loop has left through the shutdown branch after it processed a line,
\* while the task was about to send it another one
C34_Witness ==
    /\ main_pc = "exited"
    /\ main_exit = "shutdown"
    /\ received # << >>
    /\ cstate = "SEND_LINE"

(***************************************************************************)
(* client.rs: handle_login byte by byte, inside the connection task        *)
(***************************************************************************)
\* the safety limit of the two read loops of handle_login
LoginLimit == 4096
\* largest limit explored
MaxLoginBytes == 5

\* the limit the model runs with
Limit == IF MaxLoginBytes < LoginLimit THEN MaxLoginBytes ELSE LoginLimit

\* the bytes the server sends while the client logs in
LoginBytes == {"C", "a", "l", ":", ">"}

\* mutant of PromptSeen: the comparison keeps the case
PromptSeen_KeepCase(buf) ==
    /\ Len(buf) >= 5
    /\ SubSeq(buf, Len(buf) - 4, Len(buf)) = <<"c", "a", "l", "l", ":">>

\* buf.len() >= 5 and the last 5 bytes eq_ignore_ascii_case("call:")
PromptSeen(buf) ==
    /\ Len(buf) >= 5
    /\ eq_ignore_ascii_case(SubSeq(buf, Len(buf) - 4, Len(buf)),
                            <<"c", "a", "l", "l", ":">>)

\* handle_login is entered: buf is empty.  History: last, the outcome of
\* the latest read (a byte, "timeout", "eof" or "read_error"); writes, the
\* calls of write_all; prompted, whether every one of them found the prompt
\* at the end of buf; returned, Some(buf.len()) once it has returned Ok(())
LoginStart ==
    [buf |-> << >>, last |-> "none", writes |-> 0, prompted |-> TRUE,
     returned |-> None]

\* RbnClient::connect followed by the start of the event loop; one
\* connection is followed from connect_and_stream to its Disconnected event
LoginInit ==
    /\ StorageIdle
    /\ ParserIdle
    /\ ThreadsIdle
    /\ call = << >>
    /\ ret = None
    /\ boot = << >>
    /\ poll = << >>
    /\ login = LoginStart
    /\ auto_reconnect \in BOOLEAN
    /\ cstate = "CONNECTING"
    /\ chan = << >>
    /\ rx_alive = TRUE
    /\ line_buf = None
    /\ shutdown = FALSE
    /\ main_pc = "running"
    /\ main_exit = "none"
    /\ attempts = 1
    /\ lines_read = << >>
    /\ received = << >>
    /\ emitted = << >>
    /\ exit_cause = NoExit
    /\ send_failed = FALSE

\* what a step of handle_login leaves alone
LoginFrame ==
    UNCHANGED <<auto_reconnect, chan, rx_alive, line_buf, shutdown, main_pc,
                main_exit, attempts, lines_read, received, emitted,
                send_failed, vars, xvars, kvars, call, ret, boot, poll>>

\* one turn of the first loop: timeout(connect_timeout, reader.read(&mut
\* byte)), the push, the test of the last 5 bytes, then the safety limit
PromptRead ==
    /\ cstate = "AWAIT_PROMPT"
    /\ \/ \E b \in LoginBytes :
             LET buf == Append(login.buf, b) IN
             /\ login' = [login EXCEPT !.buf = buf, !.last = b]
             /\ IF PromptSeen(buf)
                THEN cstate' = "SENDING_CALL" /\ UNCHANGED exit_cause
                ELSE IF Len(buf) > Limit
                THEN ReturnErr("AWAIT_PROMPT", "login_too_long")
                ELSE UNCHANGED <<cstate, exit_cause>>
       \/ \E why \in {"eof", "read_error", "timeout"} :
             /\ login' = [login EXCEPT !.last = why]
             /\ ReturnErr("AWAIT_PROMPT", "login_" \o why)
    /\ LoginFrame

\* writer.write_all(callsign + "\r\n"), writer.flush(), buf.clear()
CallWrite ==
    /\ cstate = "SENDING_CALL"
    /\ \E outcome \in {"written", "write_error"} :
          /\ login' = [login EXCEPT
                !.writes = @ + 1,
                !.prompted = @ /\ PromptSeen(login.buf),
                !.buf = IF outcome = "written" THEN << >> ELSE @]
          /\ IF outcome = "written"
             THEN cstate' = "AWAIT_READY" /\ UNCHANGED exit_cause
             ELSE ReturnErr("SENDING_CALL", "login_" \o outcome)
    /\ LoginFrame

\* mutant of ReadyRead: end of file counts as success, too
ReadyRead_EofOk ==
    /\ cstate = "AWAIT_READY"
    /\ \/ \E b \in LoginBytes :
             LET buf == Append(login.buf, b)
                 done == b = ">" \/ Len(buf) > Limit IN
             /\ login' = [login EXCEPT
                   !.buf = IF done THEN << >> ELSE buf,
                   !.last = b,
                   !.returned = IF done THEN Some(Len(buf)) ELSE @]
             /\ cstate' = IF done THEN "SEND_CONNECTED" ELSE cstate
             /\ UNCHANGED exit_cause
       \/ \E why \in {"timeout", "eof"} :
             /\ login' = [login EXCEPT !.buf = << >>, !.last = why,
                                       !.returned = Some(Len(login.buf))]
             /\ cstate' = "SEND_CONNECTED"
             /\ UNCHANGED exit_cause
       \/ \E why \in {"read_error"} :
             /\ login' = [login EXCEPT !.last = why]
             /\ ReturnErr("AWAIT_READY", "login_" \o why)
    /\ LoginFrame

\* mutant of ReadyRead: after a timeout the Connected event is skipped
ReadyRead_NoConnected ==
    /\ cstate = "AWAIT_READY"
    /\ \/ \E b \in LoginBytes :
             LET buf == Append(login.buf, b)
                 done == b = ">" \/ Len(buf) > Limit IN
             /\ login' = [login EXCEPT
                   !.buf = IF done THEN << >> ELSE buf,
                   !.last = b,
                   !.returned = IF done THEN Some(Len(buf)) ELSE @]
             /\ cstate' = IF done THEN "SEND_CONNECTED" ELSE cstate
             /\ UNCHANGED exit_cause
       \/ /\ login' = [login EXCEPT !.buf = << >>, !.last = "timeout",
                                    !.returned = Some(Len(login.buf))]
          /\ cstate' = "STREAMING"
          /\ UNCHANGED exit_cause
       \/ \E why \in {"eof", "read_error"} :
             /\ login' = [login EXCEPT !.last = why]
             /\ ReturnErr("AWAIT_READY", "login_" \o why)
    /\ LoginFrame

\* one turn of the second loop: the read, the push, the test for '>', then
\* the safety limit; the limit and the timeout return Ok(()), and buf is
\* dropped with the return
ReadyRead ==
    /\ cstate = "AWAIT_READY"
    /\ \/ \E b \in LoginBytes :
             LET buf == Append(login.buf, b)
                 done == b = ">" \/ Len(buf) > Limit IN
             /\ login' = [login EXCEPT
                   !.buf = IF done THEN << >> ELSE buf,
                   !.last = b,
                   !.returned = IF done THEN Some(Len(buf)) ELSE @]
             /\ cstate' = IF done THEN "SEND_CONNECTED" ELSE cstate
             /\ UNCHANGED exit_cause
       \/ /\ login' = [login EXCEPT !.buf = << >>, !.last = "timeout",
                                    !.returned = Some(Len(login.buf))]
          /\ cstate' = "SEND_CONNECTED"
          /\ UNCHANGED exit_cause
       \/ \E why \in {"eof", "read_error"} :
             /\ login' = [login EXCEPT !.last = why]
             /\ ReturnErr("AWAIT_READY", "login_" \o why)
    /\ LoginFrame

LoginNext ==
    \/ Connect /\ UNCHANGED <<vars, xvars, kvars, pvars>>
    \/ PromptRead
    \/ CallWrite
    \/ ReadyRead
    \/ SendConnected /\ UNCHANGED <<vars, xvars, kvars, pvars>>
    \/ StreamRead /\ UNCHANGED <<vars, xvars, kvars, pvars>>
    \/ SendLine /\ UNCHANGED <<vars, xvars, kvars, pvars>>
    \/ SendError /\ UNCHANGED <<vars, xvars, kvars, pvars>>
    \/ SendDisconnected /\ UNCHANGED <<vars, xvars, kvars, pvars>>
    \/ MainRecv /\ UNCHANGED <<vars, xvars, kvars, pvars>>
    \/ MainClosed /\ UNCHANGED <<vars, xvars, kvars, pvars>>
    \/ MainShutdown /\ UNCHANGED <<vars, xvars, kvars, pvars>>
    \/ ShutdownSignal /\ UNCHANGED <<vars, xvars, kvars, pvars>>

LoginSpec == LoginInit /\ [][LoginNext]_allvars

(***************************************************************************)
(* Properties of the login                                                 *)
(***************************************************************************)
\* the bytes end with C, A, L, L, ':' in either case of the letters
EndsWithCall(bytes) ==
    /\ Len(bytes) >= 5
    /\ \A k \in 1..5 :
          LET c == bytes[Len(bytes) - 5 + k] IN
          \/ c = <<"c", "a", "l", "l", ":">>[k]
          \/ c = <<"C", "A", "L", "L", ":">>[k]

\* no proper prefix of the bytes ends with the prompt
NoPromptBefore(bytes) ==
    \A k \in 0..(Len(bytes) - 1) : ~EndsWithCall(SubSeq(bytes, 1, k))

\* the first position of `kind` among the events of the connection, 0 if
\* there is none
FirstOf(kind) ==
    IF Count(emitted, kind) = 0 THEN 0
    ELSE CHOOSE k \in 1..Len(emitted) :
            emitted[k] = kind /\ \A j \in 1..(k - 1) : emitted[j] # kind

\* C31: within a connection the callsign is written at most once and only
\* with the prompt at the end of what has been read; Connected is sent at
\* most once, only after handle_login has returned Ok, and has been sent
\* once the connection streams; every Line is sent after Connected and
\* before Disconnected, which is the last event.
C31_OrderedSteps ==
    /\ login.writes <= 1
    /\ login.writes = 1 => login.prompted
    /\ cstate \in {"CONNECTING", "AWAIT_PROMPT", "SENDING_CALL"} =>
          login.writes = 0
    /\ Count(emitted, "Connected") <= 1
    /\ Count(emitted, "Connected") = 1 =>
          IsSome(login.returned) /\ login.writes = 1
    /\ cstate \in {"STREAMING", "SEND_LINE"} => Count(emitted, "Connected") = 1
    /\ \A k \in 1..Len(emitted) :
          /\ emitted[k] = "Line" =>
                /\ FirstOf("Connected") \in 1..(k - 1)
                /\ FirstOf("Disconnected") = 0 \/ FirstOf("Disconnected") > k
          /\ emitted[k] = "Disconnected" => k = Len(emitted)

\* a connection that logged in on the prompt, delivered lines and ended
C31_Witness ==
    /\ emitted = <<"Connected", "Line", "Disconnected">>
    /\ login.writes = 1
    /\ login.last = ">"

\* C32: the first loop of handle_login goes on to the write of the
\* callsign exactly when the bytes read end with "call:" in any case; it
\* fails after more than Limit bytes without that, on a timeout, on end of
\* file (and on a read error), and then no callsign is written.
C32_PromptOrError ==
    /\ Limit <= LoginLimit
    /\ cstate = "AWAIT_PROMPT" =>
          /\ Len(login.buf) <= Limit
          /\ ~EndsWithCall(login.buf)
          /\ NoPromptBefore(login.buf)
          /\ login.writes = 0
    /\ cstate = "SENDING_CALL" =>
          /\ EndsWithCall(login.buf)
          /\ NoPromptBefore(login.buf)
          /\ Len(login.buf) <= Limit + 1
    /\ exit_cause.from = "AWAIT_PROMPT" =>
          /\ login.writes = 0
          /\ ~EndsWithCall(login.buf)
          /\ NoPromptBefore(login.buf)
          /\ exit_cause.why \in {"login_too_long", "login_timeout", "login_eof",
                                 "login_read_error"}
          /\ (exit_cause.why = "login_too_long") <=> (Len(login.buf) > Limit)
          /\ (exit_cause.why # "login_too_long") =>
                exit_cause.why = "login_" \o login.last
          /\ Count(emitted, "Connected") = 0

\* more than Limit bytes were read, the prompt in the wrong order among
\* them, and the attempt has ended with its Disconnected event
C32_Witness ==
    /\ exit_cause = [from |-> "AWAIT_PROMPT", why |-> "login_too_long"]
    /\ Len(login.buf) = Limit + 1
    /\ SubSeq(login.buf, 1, 5) = <<"C", "a", "l", ":", "l">>
    /\ login.writes = 0
    /\ emitted = <<"Error", "Disconnected">>

\* handle_login has returned Ok(()) in this connection
LoggedIn ==
    \/ cstate \in {"SEND_CONNECTED", "STREAMING", "SEND_LINE"}
    \/ exit_cause.from = "STREAMING"

\* C33: the second loop of handle_login ends with success exactly when the
\* byte read is '>', when more than Limit bytes are buffered without one,
\* or when a read times out; end of file and a read error fail the attempt,
\* and no Connected is sent for it.
C33_ReadyOrError ==
    /\ cstate = "AWAIT_READY" =>
          /\ Len(login.buf) <= Limit
          /\ \A k \in 1..Len(login.buf) : login.buf[k] # ">"
          /\ login.last \notin {"timeout", "eof", "read_error"}
          /\ login.returned = None
    /\ LoggedIn <=> IsSome(login.returned)
    /\ IsSome(login.returned) =>
          \/ login.last = ">" /\ Unwrap(login.returned) <= Limit + 1
          \/ login.last \in LoginBytes /\ Unwrap(login.returned) = Limit + 1
          \/ login.last = "timeout" /\ Unwrap(login.returned) <= Limit
    /\ exit_cause.from = "AWAIT_READY" =>
          /\ login.last \in {"eof", "read_error"}
          /\ exit_cause.why = "login_" \o login.last
          /\ login.returned = None
          /\ Count(emitted, "Connected") = 0

\* the server closed the connection after the callsign was written: Error
\* and Disconnected are the only events
C33_Witness ==
    /\ exit_cause = [from |-> "AWAIT_READY", why |-> "login_eof"]
    /\ login.writes = 1
    /\ login.buf # << >>
    /\ emitted = <<"Error", "Disconnected">>

(***************************************************************************)
(* parser.rs                                                               *)
(***************************************************************************)
DigitChars == {"0", "1", "2", "3", "4", "5", "6", "7", "8", "9"}
\* char::is_ascii_alphanumeric
AlnumChars ==
    DigitChars \cup {LowerChars[k] : k \in 1..26} \cup {UpperChars[k] : k \in 1..26}
\* the characters nom's space0 / space1 accept
SpaceChars == {" ", "\t"}
\* the characters nom's multispace1 accepts
MultispaceChars == {" ", "\t", "\r", "\n"}
\* the white space str::trim removes, as far as the feed can contain it
TrimChars == {" ", "\t", "\r", "\n"}

DigitValue(c) ==
    CASE c = "0" -> 0 [] c = "1" -> 1 [] c = "2" -> 2 [] c = "3" -> 3
      [] c = "4" -> 4 [] c = "5" -> 5 [] c = "6" -> 6 [] c = "7" -> 7
      [] c = "8" -> 8 [] c = "9" -> 9

\* the part of s from position k (1-based) on
Drop(s, k) == SubSeq(s, k, Len(s))

\* length of the longest prefix of s whose characters are all in chars
PrefixLen(chars, s) ==
    IF \A k \in 1..Len(s) : s[k] \in chars THEN Len(s)
    ELSE (CHOOSE k \in 1..Len(s) :
             s[k] \notin chars /\ \A j \in 1..(k - 1) : s[j] \in chars) - 1

\* length of the longest suffix of s whose characters are all in chars
SuffixLen(chars, s) ==
    IF \A k \in 1..Len(s) : s[k] \in chars THEN Len(s)
    ELSE Len(s) - (CHOOSE k \in 1..Len(s) :
             s[k] \notin chars /\ \A j \in (k + 1)..Len(s) : s[j] \in chars)

\* str::trim
trim(s) ==
    LET a == PrefixLen(TrimChars, s) IN
    IF a = Len(s) THEN << >>
    ELSE SubSeq(s, a + 1, Len(s) - SuffixLen(TrimChars, s))

\* IResult: Ok((rest, out)) or Err
POk(rest, out) == [ok |-> TRUE, rest |-> rest, out |-> << out >>]
PErr == [ok |-> FALSE, rest |-> << >>, out |-> << >>]

\* nom tag_no_case(t)
tag_no_case(t, input) ==
    IF Len(input) >= Len(t) /\ eq_ignore_ascii_case(SubSeq(input, 1, Len(t)), t)
    THEN POk(Drop(input, Len(t) + 1), SubSeq(input, 1, Len(t)))
    ELSE PErr

\* nom take_while(chars): zero or more; space0 is take_while0(SpaceChars)
take_while0(chars, input) ==
    LET n == PrefixLen(chars, input) IN
    POk(Drop(input, n + 1), SubSeq(input, 1, n))

\* nom take_while1(chars): one or more; space1, multispace1 and digit1 are
\* take_while1 of SpaceChars, MultispaceChars and DigitChars
take_while1(chars, input) ==
    LET n == PrefixLen(chars, input) IN
    IF n = 0 THEN PErr ELSE POk(Drop(input, n + 1), SubSeq(input, 1, n))

\* nom char(c)
char(c, input) ==
    IF input # << >> /\ Head(input) = c THEN POk(Tail(input), c) ELSE PErr

\* is_callsign_char
CallsignChars == AlnumChars \cup {"/", "-", "#"}

\* parse_dx_de_prefix
parse_dx_de_prefix(input) ==
    LET a == tag_no_case(<<"D", "X">>, input) IN
    IF ~a.ok THEN PErr ELSE
    LET b == take_while1(MultispaceChars, a.rest) IN
    IF ~b.ok THEN PErr ELSE
    LET c == tag_no_case(<<"d", "e">>, b.rest) IN
    IF ~c.ok THEN PErr ELSE
    LET d == take_while1(MultispaceChars, c.rest) IN
    IF ~d.ok THEN PErr ELSE POk(d.rest, "unit")

\* parse_callsign
parse_callsign(input) == take_while1(CallsignChars, input)

\* parse_spotter
parse_spotter(input) ==
    LET a == parse_callsign(input) IN
    IF ~a.ok THEN PErr ELSE
    LET b == char(":", a.rest) IN
    IF ~b.ok THEN PErr ELSE
    POk(take_while0(SpaceChars, b.rest).rest, Unwrap(a.out))

RECURSIVE DecimalValue(_, _)
\* the value of a digit string, or -1 when it exceeds max (the integer
\* parse overflows)
DecimalValue(digits, max) ==
    IF digits = << >> THEN 0
    ELSE LET v == DecimalValue(SubSeq(digits, 1, Len(digits) - 1), max)
             d == DigitValue(Last(digits)) IN
         IF v < 0 \/ v > (max - d) \div 10 THEN -1 ELSE v * 10 + d

\* parse_frequency: digit1, then optionally '.' and digit1; the value is
\* kept in tenths of a kHz (first fractional digit), exactly up to 10^8 kHz
parse_frequency(input) ==
    LET a == take_while1(DigitChars, input) IN
    IF ~a.ok THEN PErr ELSE
    LET dot == char(".", a.rest)
        frac == IF dot.ok THEN take_while1(DigitChars, dot.rest) ELSE PErr
        whole == DecimalValue(Unwrap(a.out), 100000000) IN
    IF frac.ok
    THEN POk(frac.rest, whole * 10 + DigitValue(Head(Unwrap(frac.out))))
    ELSE POk(a.rest, whole * 10)

\* parse_mode
parse_mode(input) ==
    IF tag_no_case(<<"C", "W">>, input).ok
    THEN POk(tag_no_case(<<"C", "W">>, input).rest, "CW")
    ELSE IF tag_no_case(<<"R", "T", "T", "Y">>, input).ok
    THEN POk(tag_no_case(<<"R", "T", "T", "Y">>, input).rest, "RTTY")
    ELSE IF tag_no_case(<<"F", "T", "8">>, input).ok
    THEN POk(tag_no_case(<<"F", "T", "8">>, input).rest, "FT8")
    ELSE IF tag_no_case(<<"F", "T", "4">>, input).ok
    THEN POk(tag_no_case(<<"F", "T", "4">>, input).rest, "FT4")
    ELSE IF tag_no_case(<<"P", "S", "K", "3", "1">>, input).ok
    THEN POk(tag_no_case(<<"P", "S", "K", "3", "1">>, input).rest, "PSK31")
    ELSE PErr

\* parse_snr: the digits are parsed as i32 (-2147483648..2147483647)
parse_snr(input) ==
    LET minus == char("-", input)
        a == take_while1(DigitChars, IF minus.ok THEN minus.rest ELSE input) IN
    IF ~a.ok THEN PErr ELSE
    LET digits == Unwrap(a.out)
        v == DecimalValue(digits, 2147483647)
        is_min == minus.ok /\ Drop(digits, PrefixLen({"0"}, digits) + 1)
                     = <<"2", "1", "4", "7", "4", "8", "3", "6", "4", "8">> IN
    IF v < 0 /\ ~is_min THEN PErr ELSE
    LET b == take_while1(SpaceChars, a.rest) IN
    IF ~b.ok THEN PErr ELSE
    LET c == tag_no_case(<<"d", "B">>, b.rest) IN
    IF ~c.ok THEN PErr
    ELSE POk(c.rest, IF is_min THEN -2147483647 - 1 ELSE IF minus.ok THEN -v ELSE v)

\* parse_wpm: the digits are parsed as u16 (0..65535)
parse_wpm(input) ==
    LET a == take_while1(DigitChars, input) IN
    IF ~a.ok THEN PErr ELSE
    LET v == DecimalValue(Unwrap(a.out), 65535) IN
    IF v < 0 THEN PErr ELSE
    LET b == take_while1(SpaceChars, a.rest) IN
    IF ~b.ok THEN PErr ELSE
    LET c == tag_no_case(<<"W", "P", "M">>, b.rest) IN
    IF ~c.ok THEN PErr ELSE POk(c.rest, v)

\* parse_spot_type: the alternatives in the order of the code
parse_spot_type(input) ==
    LET n1 == tag_no_case(<<"N", "C", "D", "X", "F">>, input)
        n2 == IF n1.ok THEN take_while1(SpaceChars, n1.rest) ELSE PErr
        n3 == IF n2.ok THEN tag_no_case(<<"B">>, n2.rest) ELSE PErr
        beacon == tag_no_case(<<"B", "E", "A", "C", "O", "N">>, input)
        cq == tag_no_case(<<"C", "Q">>, input)
        other == take_while1(AlnumChars \cup {" "}, input) IN
    IF n3.ok THEN POk(n3.rest, "NCDXF_BEACON")
    ELSE IF beacon.ok THEN POk(beacon.rest, "BEACON")
    ELSE IF cq.ok THEN POk(cq.rest, "CQ")
    ELSE IF other.ok THEN POk(other.rest, "OTHER")
    ELSE PErr

\* NaiveTime::from_hms_opt(hour, min, 0)
from_hms_opt(hour, min, sec) ==
    IF hour <= 23 /\ min <= 59 /\ sec <= 59 THEN Some(<<hour, min, sec>>) ELSE None

\* parse_time_full
parse_time_full(input) ==
    LET a == take_while1(DigitChars, input) IN
    IF ~a.ok THEN PErr ELSE
    LET z == tag_no_case(<<"Z">>, a.rest) IN
    IF ~z.ok THEN PErr ELSE
    LET s == Unwrap(a.out) IN
    IF Len(s) # 4 THEN PErr ELSE
    LET t == from_hms_opt(DecimalValue(SubSeq(s, 1, 2), 99),
                          DecimalValue(SubSeq(s, 3, 4), 99), 0) IN
    IF IsSome(t) THEN POk(z.rest, Unwrap(t)) ELSE PErr

\* ParseResult<CwSpot>: Ok(spot) or Err(ParseError)
ParseOk(spot) == [ok |-> TRUE, spot |-> Some(spot), err |-> "none"]
ParseErr(err) == [ok |-> FALSE, spot |-> None, err |-> err]

\* parse_spot: every nom error becomes ParseError::InvalidFormat
parse_spot(line) ==
    LET input == trim(line)
        p1 == parse_dx_de_prefix(input) IN
    IF ~p1.ok THEN ParseErr("InvalidFormat") ELSE
    LET p2 == parse_spotter(p1.rest) IN
    IF ~p2.ok THEN ParseErr("InvalidFormat") ELSE
    LET p3 == parse_frequency(take_while0(SpaceChars, p2.rest).rest) IN
    IF ~p3.ok THEN ParseErr("InvalidFormat") ELSE
    LET s4 == take_while1(SpaceChars, p3.rest)
        p4 == IF s4.ok THEN parse_callsign(s4.rest) ELSE PErr IN
    IF ~p4.ok THEN ParseErr("InvalidFormat") ELSE
    LET s5 == take_while1(SpaceChars, p4.rest)
        p5 == IF s5.ok THEN parse_mode(s5.rest) ELSE PErr IN
    IF ~p5.ok THEN ParseErr("InvalidFormat") ELSE
    LET s6 == take_while1(SpaceChars, p5.rest)
        p6 == IF s6.ok THEN parse_snr(s6.rest) ELSE PErr IN
    IF ~p6.ok THEN ParseErr("InvalidFormat") ELSE
    LET s7 == take_while1(SpaceChars, p6.rest)
        p7 == IF s7.ok THEN parse_wpm(s7.rest) ELSE PErr IN
    IF ~p7.ok THEN ParseErr("InvalidFormat") ELSE
    LET s8 == take_while1(SpaceChars, p7.rest)
        p8 == IF s8.ok THEN parse_spot_type(s8.rest) ELSE PErr IN
    IF ~p8.ok THEN ParseErr("InvalidFormat") ELSE
    LET p9 == parse_time_full(take_while0(SpaceChars, p8.rest).rest) IN
    IF ~p9.ok THEN ParseErr("InvalidFormat") ELSE
    ParseOk([spotter |-> Unwrap(p2.out), frequency_tenths |-> Unwrap(p3.out),
             dx_call |-> Unwrap(p4.out), mode |-> Unwrap(p5.out),
             snr_db |-> Unwrap(p6.out), wpm |-> Unwrap(p7.out),
             spot_type |-> Unwrap(p8.out), time |-> Unwrap(p9.out)])

\* looks_like_spot
looks_like_spot(line) ==
    LET trimmed == trim(line) IN
    /\ Len(trimmed) > 20
    /\ \/ starts_with(trimmed, <<"D", "X", " ", "d", "e", " ">>)
       \/ starts_with(trimmed, <<"D", "X", " ", "D", "E", " ">>)
       \/ starts_with(trimmed, <<"d", "x", " ", "d", "e", " ">>)

\* is_cw_spot
is_cw_spot(spot) == spot.mode = "CW"

(***************************************************************************)
(* Input lines of the parser                                               *)
(***************************************************************************)
\* the line of the example of parse_spot, assembled from its fields
MkLine(prefix, freq, mode, type, time) ==
    prefix \o <<"E", "A", "5", "W", "U", "-", "#", ":", " ", " ", " ", " ">> \o freq \o <<" ", " ", "R", "W", "1", "M", " ", " ", " ", " ", " ", " ", " ", " ", " ", " ", " ">> \o mode
      \o <<" ", " ", " ", " ", "1", "9", " ", "d", "B", " ", " ", "1", "8", " ", "W", "P", "M", " ", " ">> \o type \o <<" ", " ", " ", " ", " ", " ">> \o time

\* the fields of that line
Example ==
    [prefix |-> <<"D", "X", " ", "d", "e", " ">>,
     freq |-> <<"7", "0", "1", "8", ".", "3">>,
     mode |-> <<"C", "W">>,
     type |-> <<"C", "Q">>,
     time |-> <<"2", "2", "5", "9", "Z">>]

\* the prefix of a line in the casings and spacings explored
Prefixes ==
    {<<"D", "X", " ", "d", "e", " ">>,
     <<"D", "X", " ", "D", "E", " ">>,
     <<"d", "x", " ", "d", "e", " ">>,
     <<"D", "x", " ", "D", "e", " ">>,
     <<"d", "X", " ", "d", "E", " ">>,
     <<"D", "X", " ", " ", "d", "e", " ">>,
     <<"D", "X", "\t", "d", "e", " ">>,
     <<"D", "X", " ", "d", "e", "\t">>,
     <<"D", "X", "d", "e", " ">>,
     <<"D", "E", " ", "D", "X", " ">>}

\* time fields that are four digits with hh <= 23 and mm <= 59
GoodTimes ==
    {<<"2", "2", "5", "9", "Z">>,
     <<"0", "0", "0", "0", "Z">>,
     <<"2", "3", "5", "9", "Z">>,
     <<"1", "2", "0", "0", "z">>}

\* digit strings before the Z that are not a time of day
BadTimes ==
    {<<"2", "4", "0", "0", "Z">>,
     <<"2", "3", "6", "0", "Z">>,
     <<"9", "9", "9", "9", "Z">>,
     <<"2", "2", "5", "Z">>,
     <<"2", "2", "5", "9", "0", "Z">>,
     <<"0", "Z">>}

\* mode fields
LineModes ==
    {<<"C", "W">>,
     <<"R", "T", "T", "Y">>,
     <<"F", "T", "8">>,
     <<"c", "w">>}

\* spot type fields
LineTypes ==
    {<<"C", "Q">>,
     <<"B", "E", "A", "C", "O", "N">>,
     <<"N", "C", "D", "X", "F", " ", "B">>,
     <<"D", "X">>}

\* frequency fields
LineFreqs ==
    {<<"7", "0", "1", "8", ".", "3">>,
     <<"1", "4", "0", "2", "5">>,
     <<"0">>,
     <<"0", ".", "0">>}

\* lines that are no spots
NonSpotLines ==
    {<<"W", "e", "l", "c", "o", "m", "e", " ", "t", "o", " ", "t", "h", "e", " ", "R", "e", "v", "e", "r", "s", "e", " ", "B", "e", "a", "c", "o", "n", " ", "N", "e", "t", "w", "o", "r", "k">>,
     <<"D", "X", " ", "d", "e", " ", "s", "h", "o", "r", "t">>,
     << >>}

\* lines that are valid spots except for the time field
BadTimeLines ==
    LET e == Example IN
    {MkLine(e.prefix, e.freq, e.mode, e.type, t) : t \in BadTimes}

\* the lines handed to the parser
Lines ==
    LET e == Example IN
    {MkLine(p, e.freq, e.mode, e.type, t) :
        p \in Prefixes, t \in GoodTimes \cup BadTimes}
      \cup {MkLine(e.prefix, f, m, e.type, e.time) :
                f \in LineFreqs, m \in LineModes}
      \cup {MkLine(e.prefix, e.freq, e.mode, y, e.time) : y \in LineTypes}
      \cup {<<" ", " ">> \o MkLine(e.prefix, e.freq, e.mode, e.type, e.time)
               \o <<"\r", "\n">>}
      \cup NonSpotLines

(***************************************************************************)
(* The parser applied to one line                                          *)
(***************************************************************************)
ParserInit ==
    /\ CallsIdle
    /\ StorageIdle
    /\ ClientIdle
    /\ ThreadsIdle
    /\ pline \in Lines
    /\ plooks = None
    /\ presult = None
    /\ cw_only = FALSE
    /\ with_storage = FALSE
    /\ stats = << >>
    /\ handled = 0
    /\ filtered = 0

\* a call looks_like_spot(line)
LooksLikeSpot ==
    /\ plooks = None
    /\ plooks' = Some(looks_like_spot(pline))
    /\ UNCHANGED <<pline, presult, cw_only, with_storage, stats, handled, filtered>>

\* a call parse_spot(line)
ParseSpot ==
    /\ presult = None
    /\ presult' = Some(parse_spot(pline))
    /\ UNCHANGED <<pline, plooks, cw_only, with_storage, stats, handled, filtered>>

ParserNext ==
    \/ LooksLikeSpot /\ UNCHANGED <<vars, cvars, kvars, pvars>>
    \/ ParseSpot /\ UNCHANGED <<vars, cvars, kvars, pvars>>

ParserSpec == ParserInit /\ [][ParserNext]_allvars

(***************************************************************************)
(* Properties of the parser                                                *)
(***************************************************************************)
\* C19: a line that parse_spot accepts satisfies looks_like_spot.
C19_AcceptedLooksLikeSpot ==
    (IsSome(presult) /\ IsSome(plooks) /\ Unwrap(presult).ok) => Unwrap(plooks)

\* C20: a line that is a valid spot except for a time that is not four
\* digits, or has hh > 23 or mm > 59, gets a failure tagged invalid-time.
C20_InvalidTimeTagged ==
    (IsSome(presult) /\ pline \in BadTimeLines) =>
        ~Unwrap(presult).ok /\ Unwrap(presult).err = "InvalidTime"

\* lines that are valid spots whose spot type is a word other than CQ,
\* BEACON and NCDXF B, followed by a valid time
OtherTypeLines ==
    LET e == Example IN
    {MkLine(e.prefix, e.freq, e.mode, <<"D", "X">>, t) : t \in GoodTimes}

\* C21: a line that is otherwise a valid spot, with a spot type word other
\* than CQ, BEACON and NCDXF B followed by a valid hhmmZ time, is accepted by
\* parse_spot with spot_type = OTHER.
C21_OtherTypeAccepted ==
    (IsSome(presult) /\ pline \in OtherTypeLines) =>
        /\ Unwrap(presult).ok
        /\ Unwrap(Unwrap(presult).spot).spot_type = "OTHER"

\* C22: every spot that parse_spot returns has a non-empty spotter, a
\* non-empty dx_call and frequency_khz > 0.
C22_RecordInvariants ==
    (IsSome(presult) /\ Unwrap(presult).ok) =>
        LET spot == Unwrap(Unwrap(presult).spot) IN
        /\ Len(spot.spotter) > 0
        /\ Len(spot.dx_call) > 0
        /\ spot.frequency_tenths > 0

(***************************************************************************)
(* stats.rs: SpotStats.  A histogram and a HashMap of counts are bags.     *)
(***************************************************************************)
\* SpotStats::new
SpotStats_new ==
    [total_spots |-> 0, cw_spots |-> 0, parse_failures |-> 0,
     non_spot_lines |-> 0, bytes_processed |-> 0,
     size_histogram |-> EmptyBag, snr_histogram |-> EmptyBag,
     wpm_histogram |-> EmptyBag, spots_by_band |-> EmptyBag,
     spots_by_mode |-> EmptyBag, spots_by_type |-> EmptyBag,
     top_spotters |-> EmptyBag]

\* *map.entry(key).or_insert(0) += 1, and Histogram::record(value)
AddOne(bag, key) == bag (+) SetToBag({key})

\* Ord::clamp(lo, hi) and Ord::max
clamp(v, lo, hi) == IF v < lo THEN lo ELSE IF v > hi THEN hi ELSE v
max(a, b) == IF a >= b THEN a ELSE b

\* one statement of record_spot, named by the field it updates
record_step(step, st, spot) ==
    CASE step = "total" -> [st EXCEPT !.total_spots = @ + 1]
      [] step = "cw" ->
           IF spot.mode = "CW" THEN [st EXCEPT !.cw_spots = @ + 1] ELSE st
      [] step = "size" ->
           [st EXCEPT !.size_histogram = AddOne(@, max(json_size(spot), 1))]
      [] step = "snr" ->
           [st EXCEPT !.snr_histogram =
                         AddOne(@, clamp(max(spot.snr_db + 30, 0), 1, 99))]
      [] step = "wpm" ->
           [st EXCEPT !.wpm_histogram = AddOne(@, clamp(spot.wpm, 1, 99))]
      [] step = "band" ->
           IF IsSome(band(spot))
           THEN [st EXCEPT !.spots_by_band = AddOne(@, Unwrap(band(spot)))]
           ELSE st
      [] step = "mode" -> [st EXCEPT !.spots_by_mode = AddOne(@, spot.mode)]
      [] step = "type" -> [st EXCEPT !.spots_by_type = AddOne(@, spot.spot_type)]
      [] step = "spotter" -> [st EXCEPT !.top_spotters = AddOne(@, spot.spotter)]

\* SpotStats::record_spot: its statements in the order of the code
record_spot(st, spot) ==
    LET order == <<"total", "cw", "size", "snr", "wpm", "band", "mode",
                   "type", "spotter">>
        after[k \in 0..Len(order)] ==
            IF k = 0 THEN st ELSE record_step(order[k], after[k - 1], spot)
    IN  after[Len(order)]

\* SpotStats::record_parse_failure
record_parse_failure(st) == [st EXCEPT !.parse_failures = @ + 1]

\* SpotStats::record_non_spot
record_non_spot(st) == [st EXCEPT !.non_spot_lines = @ + 1]

\* SpotStats::record_bytes
record_bytes(st, bytes) == [st EXCEPT !.bytes_processed = @ + bytes]

\* u64::saturating_sub
saturating_sub(a, b) == IF a >= b THEN a - b ELSE 0

\* Histogram::min and Histogram::max: 0 for an empty histogram; the values
\* recorded here are below 256 and are kept exactly at 2 significant figures
hist_min(h) ==
    IF BagToSet(h) = {} THEN 0
    ELSE CHOOSE v \in BagToSet(h) : \A w \in BagToSet(h) : v <= w
hist_max(h) ==
    IF BagToSet(h) = {} THEN 0
    ELSE CHOOSE v \in BagToSet(h) : \A w \in BagToSet(h) : v >= w

\* summary: snr_percentiles, its min and max (both u64)
snr_percentiles(st) ==
    [min |-> saturating_sub(hist_min(st.snr_histogram), 30),
     max |-> saturating_sub(hist_max(st.snr_histogram), 30)]

\* record_spot called for each spot of a sequence in turn
RECURSIVE record_all(_, _)
record_all(st, spots) ==
    IF spots = << >> THEN st
    ELSE record_all(record_spot(st, Head(spots)), Tail(spots))

(***************************************************************************)
(* main.rs: process_line                                                   *)
(***************************************************************************)
\* number of lines handed to process_line
MaxHandled == 3

\* the lines handed to process_line: two CW spots (40m and 20m), a RTTY
\* spot, a spot with an invalid time, a spot with a mixed-case prefix, and a
\* banner line
DispatchLines ==
    LET e == Example IN
    {MkLine(e.prefix, e.freq, e.mode, e.type, e.time),
     MkLine(e.prefix, <<"1", "4", "0", "2", "5">>, e.mode, e.type, e.time),
     MkLine(e.prefix, e.freq, <<"R", "T", "T", "Y">>, e.type, e.time),
     MkLine(e.prefix, e.freq, e.mode, e.type, <<"2", "4", "0", "0", "Z">>),
     MkLine(<<"D", "x", " ", "D", "e", " ">>, e.freq, e.mode, e.type, e.time),
     <<"W", "e", "l", "c", "o", "m", "e", " ", "t", "o", " ", "t", "h", "e", " ", "R", "e", "v", "e", "r", "s", "e", " ", "B", "e", "a", "c", "o", "n", " ", "N", "e", "t", "w", "o", "r", "k">>}

DispatchInit ==
    /\ CallsIdle
    /\ StorageIdle
    /\ ClientIdle
    /\ ThreadsIdle
    /\ pline = << >>
    /\ plooks = None
    /\ presult = None
    /\ cw_only \in BOOLEAN
    /\ with_storage \in BOOLEAN
    /\ stats = SpotStats_new
    /\ handled = 0
    /\ filtered = 0

\* the body of process_line once looks_like_spot(line) and parse_spot(line)
\* are known: count the bytes, then count the line as a non-spot, as a parse
\* failure or as a spot, and store the spot
Dispatch(line, looks, result) ==
    /\ pline' = line
    /\ plooks' = Some(looks)
    /\ UNCHANGED <<cw_only, with_storage>>
    /\ LET counted == record_bytes(stats, Len(line)) IN
       IF ~looks
       THEN /\ stats' = record_non_spot(counted)
            /\ presult' = None
            /\ UNCHANGED <<filtered, vars>>
       ELSE /\ presult' = Some(result)
            /\ IF ~result.ok
               THEN /\ stats' = record_parse_failure(counted)
                    /\ UNCHANGED <<filtered, vars>>
               ELSE LET spot == Unwrap(result.spot) IN
                    IF cw_only /\ ~is_cw_spot(spot)
                    THEN /\ stats' = counted
                         /\ filtered' = filtered + 1
                         /\ UNCHANGED vars
                    ELSE /\ stats' = record_spot(counted, spot)
                         /\ UNCHANGED filtered
                         /\ IF with_storage
                            THEN /\ storage' = try_store(storage, spot).st
                                 /\ matched' = try_store(storage, spot).matched
                                 /\ Record("try_store", spot,
                                           TryStoreCalls(storage, spot, 1))
                            ELSE UNCHANGED vars

\* process_line(line, &stats, cw_only, verbose, storage)
ProcessLine(line) ==
    /\ handled < MaxHandled
    /\ handled' = handled + 1
    /\ Dispatch(line, looks_like_spot(line), parse_spot(line))

DispatchNext ==
    \E line \in DispatchLines : ProcessLine(line) /\ UNCHANGED <<cvars, kvars, pvars>>

DispatchSpec == DispatchInit /\ [][DispatchNext]_allvars

(***************************************************************************)
(* Properties of the dispatcher                                            *)
(***************************************************************************)
\* C16: after process_line has handled n lines, for either cw_only,
\* non_spot_lines + parse_failures + total_spots = n.
C16_EveryLineCounted ==
    stats.non_spot_lines + stats.parse_failures + stats.total_spots = handled

(***************************************************************************)
(* storage.rs and metrics.rs: store_spot step by step, each queue behind   *)
(* its RwLock, and the handler of GET /spots/filter/{name} beside it       *)
(***************************************************************************)
\* number of store_spot calls started
MaxConcStores == 3
\* number of requests started
MaxRequests == 1

\* the ingest path, the one caller of store_spot
Writers == {"w1"}
\* two callers of store_spot at once: it takes &self, and SpotStorage is
\* shared between threads
Producers == {"w1", "w2"}

\* RwLock, as [writer, readers]: read() returns when no writer holds the
\* lock, write() when nobody holds it
ReadLockFree(l) == l.writer = "none"
WriteLockFree_IgnoreReaders(l) == l.writer = "none"
WriteLockFree(l) == l.writer = "none" /\ l.readers = {}

\* the storage with the FilterStorage of queue idx replaced
SetQ(st, idx, fs) == [st EXCEPT !.filters[idx + 1].storage = fs]

WriterIdle ==
    [pc |-> "idle", filter_index |-> 0, spot |-> SpotW1AW, i |-> 0,
     max_len |-> 0, max_idx |-> None, removed |-> 0]

HandlerIdle ==
    [pc |-> "idle", name |-> "", since |-> None, i |-> 0, found |-> 0,
     locked |-> None, spots |-> << >>, latest_seq |-> 0, overflow_count |-> 0]

\* GetSpotsResponse with its status code, and the request it answers
Response(status, h) ==
    [status |-> status, filter |-> h.name, since |-> h.since, spots |-> h.spots,
     latest_seq |-> h.latest_seq, overflow_count |-> h.overflow_count]

\* a storage of two catch-all queues, the first named filter_a with cap 1,
\* with and without a tight global budget; nothing stored yet, and the
\* given callers of store_spot not started
ThreadsInit(writers) ==
    /\ \E config \in [default_max_kept_entries : {2},
                      global_max_size : {2 * json_size(SpotW6JSV), 10 * 1024 * 1024}] :
          storage = SpotStorage_new(config, CatchAllFilters(1))
    /\ matched = << >>
    /\ last = [op |-> "new", spot |-> SpotW1AW, calls |-> << >>]
    /\ stores = [i \in FilterIndices |-> 0]
    /\ assigned = [i \in FilterIndices |-> << >>]
    /\ pressured = FALSE
    /\ nops = 0
    /\ ClientIdle
    /\ ParserIdle
    /\ locks = [i \in FilterIndices |-> [writer |-> "none", readers |-> {}]]
    /\ wst = [w \in writers |-> WriterIdle]
    /\ hconfigured \in BOOLEAN
    /\ hst = HandlerIdle
    /\ resp = None
    /\ snap = None
    /\ nstores = 0
    /\ nreqs = 0
    /\ rst = << >>
    /\ sst = << >>
    /\ nrecs = 0

SnapshotInit == CallsIdle /\ ThreadsInit(Writers)

ConcInit == CallsIdle /\ ThreadsInit(Producers)

\* what a step of a store_spot caller leaves alone
WriterFrame ==
    UNCHANGED <<matched, last, stores, assigned, pressured, nops, hconfigured,
                hst, resp, snap, nreqs, rst, sst, nrecs, cvars, xvars, pvars>>

\* what a step of the handler leaves alone
HandlerFrame ==
    UNCHANGED <<vars, wst, hconfigured, nstores, rst, sst, nrecs, cvars, xvars,
                pvars>>

\* store_spot(filter_index, spot) is called
StoreBegin(w, filter_index, spot) ==
    /\ wst[w].pc = "idle"
    /\ nstores < MaxConcStores
    /\ nstores' = nstores + 1
    /\ wst' = [wst EXCEPT ![w] = [WriterIdle EXCEPT !.pc = "check_global",
                  !.filter_index = filter_index, !.spot = spot]]
    /\ UNCHANGED <<storage, locks>>
    /\ WriterFrame

\* while total_size_bytes.load() + spot_size > global_max_size
CheckGlobal(w) ==
    /\ wst[w].pc = "check_global"
    /\ wst' = [wst EXCEPT ![w] =
          IF GlobalLimitExceeded(storage, json_size(wst[w].spot))
          THEN [@ EXCEPT !.pc = IF filter_count(storage) > 0
                                THEN "scan_lock" ELSE "idle",
                         !.i = 0, !.max_len = 0, !.max_idx = None]
          ELSE [@ EXCEPT !.pc = "lock_target"]]
    /\ UNCHANGED <<storage, locks, nstores>>
    /\ WriterFrame

\* evict_from_largest_filter: storage_lock.read() of queue i
ScanLock(w) ==
    /\ wst[w].pc = "scan_lock"
    /\ ReadLockFree(locks[wst[w].i])
    /\ locks' = [locks EXCEPT ![wst[w].i].readers = @ \cup {w}]
    /\ wst' = [wst EXCEPT ![w].pc = "scan_read"]
    /\ UNCHANGED <<storage, nstores>>
    /\ WriterFrame

\* mutant of ScanRead: a queue as long as the longest so far replaces it
ScanRead_LastMax(w) ==
    /\ wst[w].pc = "scan_read"
    /\ LET W == wst[w]
           l == len(StorageAt(storage, W.i))
           max_idx == IF l >= W.max_len THEN Some(W.i) ELSE W.max_idx IN
       wst' = [wst EXCEPT ![w] =
          [@ EXCEPT !.max_len = IF l >= W.max_len THEN l ELSE @,
                    !.max_idx = max_idx,
                    !.i = @ + 1,
                    !.pc = IF W.i + 1 < filter_count(storage) THEN "scan_lock"
                           ELSE IF IsSome(max_idx) THEN "evict_lock"
                           ELSE "idle"]]
    /\ locks' = [locks EXCEPT ![wst[w].i].readers = @ \ {w}]
    /\ UNCHANGED <<storage, nstores>>
    /\ WriterFrame

\* evict_from_largest_filter: the body of the scan loop for queue i, the
\* release of its read lock, and the test after the last queue
ScanRead(w) ==
    /\ wst[w].pc = "scan_read"
    /\ LET W == wst[w]
           l == len(StorageAt(storage, W.i))
           max_idx == IF l > W.max_len THEN Some(W.i) ELSE W.max_idx IN
       wst' = [wst EXCEPT ![w] =
          [@ EXCEPT !.max_len = IF l > W.max_len THEN l ELSE @,
                    !.max_idx = max_idx,
                    !.i = @ + 1,
                    !.pc = IF W.i + 1 < filter_count(storage) THEN "scan_lock"
                           ELSE IF IsSome(max_idx) THEN "evict_lock"
                           ELSE "idle"]]
    /\ locks' = [locks EXCEPT ![wst[w].i].readers = @ \ {w}]
    /\ UNCHANGED <<storage, nstores>>
    /\ WriterFrame

\* evict_from_largest_filter: storage_lock.write() of queue max_idx
EvictLock(w) ==
    /\ wst[w].pc = "evict_lock"
    /\ WriteLockFree(locks[Unwrap(wst[w].max_idx)])
    /\ locks' = [locks EXCEPT ![Unwrap(wst[w].max_idx)].writer = w]
    /\ wst' = [wst EXCEPT ![w].pc = "evict_pop"]
    /\ UNCHANGED <<storage, nstores>>
    /\ WriterFrame

\* evict_from_largest_filter: storage.pop_oldest(); on None the function
\* returns false and store_spot returns
EvictPop(w) ==
    /\ wst[w].pc = "evict_pop"
    /\ LET idx == Unwrap(wst[w].max_idx)
           popped == pop_oldest(StorageAt(storage, idx)) IN
       IF IsSome(popped.removed)
       THEN /\ storage' = SetQ(storage, idx, popped.fs)
            /\ wst' = [wst EXCEPT ![w].pc = "evict_sub",
                                  ![w].removed = Unwrap(popped.removed)]
            /\ UNCHANGED locks
       ELSE /\ locks' = [locks EXCEPT ![idx].writer = "none"]
            /\ wst' = [wst EXCEPT ![w] = WriterIdle]
            /\ UNCHANGED storage
    /\ UNCHANGED nstores
    /\ WriterFrame

\* mutant of EvictSub: the write guard of the victim outlives the return
EvictSub_KeepGuard(w) ==
    /\ wst[w].pc = "evict_sub"
    /\ storage' = [storage EXCEPT !.total_size_bytes = @ - wst[w].removed]
    /\ wst' = [wst EXCEPT ![w].pc = "evict_count"]
    /\ UNCHANGED <<locks, nstores>>
    /\ WriterFrame

\* evict_from_largest_filter: total_size_bytes.fetch_sub(removed_size) and
\* return true, which drops the write guard
EvictSub(w) ==
    /\ wst[w].pc = "evict_sub"
    /\ storage' = [storage EXCEPT !.total_size_bytes = @ - wst[w].removed]
    /\ locks' = [locks EXCEPT ![Unwrap(wst[w].max_idx)].writer = "none"]
    /\ wst' = [wst EXCEPT ![w].pc = "evict_count"]
    /\ UNCHANGED nstores
    /\ WriterFrame

\* global_evictions.fetch_add(1)
EvictCount(w) ==
    /\ wst[w].pc = "evict_count"
    /\ storage' = [storage EXCEPT !.global_evictions = @ + 1]
    /\ wst' = [wst EXCEPT ![w].pc = "check_global"]
    /\ UNCHANGED <<locks, nstores>>
    /\ WriterFrame

\* storage_lock.write() of queue filter_index
LockTarget(w) ==
    /\ wst[w].pc = "lock_target"
    /\ WriteLockFree(locks[wst[w].filter_index])
    /\ locks' = [locks EXCEPT ![wst[w].filter_index].writer = w]
    /\ wst' = [wst EXCEPT ![w].pc = "enforce"]
    /\ UNCHANGED <<storage, nstores>>
    /\ WriterFrame

\* while storage.len() >= storage.max_kept_entries { pop_oldest() .. }
Enforce(w) ==
    /\ wst[w].pc = "enforce"
    /\ LET idx == wst[w].filter_index
           popped == pop_oldest(StorageAt(storage, idx)) IN
       IF FilterLimitReached(StorageAt(storage, idx)) /\ IsSome(popped.removed)
       THEN /\ storage' = SetQ(storage, idx, popped.fs)
            /\ wst' = [wst EXCEPT ![w].pc = "enforce_sub",
                                  ![w].removed = Unwrap(popped.removed)]
       ELSE /\ wst' = [wst EXCEPT ![w].pc = "push"]
            /\ UNCHANGED storage
    /\ UNCHANGED <<locks, nstores>>
    /\ WriterFrame

\* total_size_bytes.fetch_sub(removed_size) in the per-filter loop
EnforceSub(w) ==
    /\ wst[w].pc = "enforce_sub"
    /\ storage' = [storage EXCEPT !.total_size_bytes = @ - wst[w].removed]
    /\ wst' = [wst EXCEPT ![w].pc = "enforce"]
    /\ UNCHANGED <<locks, nstores>>
    /\ WriterFrame

\* storage.push(spot)
Push(w) ==
    /\ wst[w].pc = "push"
    /\ storage' = SetQ(storage, wst[w].filter_index,
                       push(StorageAt(storage, wst[w].filter_index), wst[w].spot))
    /\ wst' = [wst EXCEPT ![w].pc = "add_total"]
    /\ UNCHANGED <<locks, nstores>>
    /\ WriterFrame

\* total_size_bytes.fetch_add(added_size) and the return of store_spot,
\* which drops the write guard
AddTotal(w) ==
    /\ wst[w].pc = "add_total"
    /\ storage' = [storage EXCEPT !.total_size_bytes = @ + json_size(wst[w].spot)]
    /\ locks' = [locks EXCEPT ![wst[w].filter_index].writer = "none"]
    /\ wst' = [wst EXCEPT ![w] = WriterIdle]
    /\ UNCHANGED nstores
    /\ WriterFrame

\* a request GET /spots/filter/{name}?since=.. arrives (in SnapshotNext: the
\* configured name, a generated name, a name no queue has; since absent or 1)
Request(name, since) ==
    /\ hst.pc = "idle"
    /\ nreqs < MaxRequests
    /\ nreqs' = nreqs + 1
    /\ hst' = [HandlerIdle EXCEPT !.pc = "check_storage", !.name = name,
                                  !.since = since]
    /\ UNCHANGED <<locks, resp, snap>>
    /\ HandlerFrame

\* let Some(storage) = &state.storage else { return 404 }
CheckStorage ==
    /\ hst.pc = "check_storage"
    /\ IF hconfigured
       THEN hst' = [hst EXCEPT !.pc = "find"] /\ UNCHANGED <<resp, snap>>
       ELSE /\ hst' = HandlerIdle
            /\ resp' = Some(Response(404, hst))
            /\ snap' = None
    /\ UNCHANGED <<locks, nreqs>>
    /\ HandlerFrame

\* get_filter_by_name: one turn of find_map (read lock, compare the name,
\* release), and the 404 after the last queue
Find ==
    /\ hst.pc = "find"
    /\ IF hst.i >= filter_count(storage)
       THEN /\ hst' = HandlerIdle
            /\ resp' = Some(Response(404, hst))
            /\ snap' = None
       ELSE /\ ReadLockFree(locks[hst.i])
            /\ hst' = IF StorageAt(storage, hst.i).name = hst.name
                      THEN [hst EXCEPT !.pc = "read_lock", !.found = hst.i]
                      ELSE [hst EXCEPT !.i = @ + 1]
            /\ UNCHANGED <<resp, snap>>
    /\ UNCHANGED <<locks, nreqs>>
    /\ HandlerFrame

\* filter_storage_lock.read()
ReadLock ==
    /\ hst.pc = "read_lock"
    /\ ReadLockFree(locks[hst.found])
    /\ locks' = [locks EXCEPT ![hst.found].readers = @ \cup {"h"}]
    /\ hst' = [hst EXCEPT !.pc = "read_spots",
                          !.locked = Some(StorageAt(storage, hst.found))]
    /\ UNCHANGED <<resp, snap, nreqs>>
    /\ HandlerFrame

\* mutant of ReadSpots: the since parameter is ignored
ReadSpots_All ==
    /\ hst.pc = "read_spots"
    /\ hst' = [hst EXCEPT !.pc = "read_latest",
                 !.spots = StorageAt(storage, hst.found).spots]
    /\ UNCHANGED <<locks, resp, snap, nreqs>>
    /\ HandlerFrame

\* filter_storage.get_spots_since(query.since.unwrap_or(0))
ReadSpots ==
    /\ hst.pc = "read_spots"
    /\ hst' = [hst EXCEPT !.pc = "read_latest",
                 !.spots = get_spots_since(StorageAt(storage, hst.found),
                                           UnwrapOr(hst.since, 0))]
    /\ UNCHANGED <<locks, resp, snap, nreqs>>
    /\ HandlerFrame

\* filter_storage.latest_seq()
ReadLatest ==
    /\ hst.pc = "read_latest"
    /\ hst' = [hst EXCEPT !.pc = "read_overflow",
                 !.latest_seq = latest_seq(StorageAt(storage, hst.found))]
    /\ UNCHANGED <<locks, resp, snap, nreqs>>
    /\ HandlerFrame

\* filter_storage.overflow_count.load()
ReadOverflow ==
    /\ hst.pc = "read_overflow"
    /\ hst' = [hst EXCEPT !.pc = "respond",
                 !.overflow_count = StorageAt(storage, hst.found).overflow_count]
    /\ UNCHANGED <<locks, resp, snap, nreqs>>
    /\ HandlerFrame

\* the 200 response; the read guard is dropped when the handler returns
Respond ==
    /\ hst.pc = "respond"
    /\ resp' = Some(Response(200, hst))
    /\ snap' = hst.locked
    /\ locks' = [locks EXCEPT ![hst.found].readers = @ \ {"h"}]
    /\ hst' = HandlerIdle
    /\ UNCHANGED nreqs
    /\ HandlerFrame

SnapshotNext ==
    \/ \E w \in DOMAIN wst, filter_index \in FilterIndices, spot \in Spots :
          StoreBegin(w, filter_index, spot)
    \/ \E w \in DOMAIN wst : CheckGlobal(w)
    \/ \E w \in DOMAIN wst : ScanLock(w)
    \/ \E w \in DOMAIN wst : ScanRead(w)
    \/ \E w \in DOMAIN wst : EvictLock(w)
    \/ \E w \in DOMAIN wst : EvictPop(w)
    \/ \E w \in DOMAIN wst : EvictSub(w)
    \/ \E w \in DOMAIN wst : EvictCount(w)
    \/ \E w \in DOMAIN wst : LockTarget(w)
    \/ \E w \in DOMAIN wst : Enforce(w)
    \/ \E w \in DOMAIN wst : EnforceSub(w)
    \/ \E w \in DOMAIN wst : Push(w)
    \/ \E w \in DOMAIN wst : AddTotal(w)
    \/ \E name \in {"filter_a", "filter_1", "filter_x"}, since \in {None, Some(1)} :
          Request(name, since)
    \/ CheckStorage
    \/ Find
    \/ ReadLock
    \/ ReadSpots
    \/ ReadLatest
    \/ ReadOverflow
    \/ Respond

SnapshotSpec == SnapshotInit /\ [][SnapshotNext]_allvars

ConcSpec == ConcInit /\ [][SnapshotNext]_allvars

\* number of requests of the polling client
MaxPolls == 3

\* a client of GET /spots/filter/{name} that polls one queue: it has sent
\* no request yet (got, the seq numbers it was given, is history)
PollInit ==
    /\ call = << >>
    /\ ret = None
    /\ boot = << >>
    /\ login = << >>
    /\ poll \in [name : {"filter_a", "filter_1"}, cursor : {0}, got : {<< >>},
                 polls : {0}]
    /\ ThreadsInit(Writers)

\* the client sends its next request, with since = its cursor
PollRequest ==
    /\ hst.pc = "idle"
    /\ resp = None
    /\ poll.polls < MaxPolls
    /\ poll' = [poll EXCEPT !.polls = @ + 1]
    /\ hst' = [HandlerIdle EXCEPT !.pc = "check_storage", !.name = poll.name,
                                  !.since = Some(poll.cursor)]
    /\ UNCHANGED <<vars, cvars, xvars, locks, wst, hconfigured, resp, snap,
                   nstores, nreqs, rst, sst, nrecs, call, ret, boot, login>>

\* the client takes the response: on 200 it keeps the seq numbers of the
\* spots and sets its cursor to the latest_seq of the same response
PollAdvance ==
    /\ IsSome(resp)
    /\ resp' = None
    /\ poll' = IF Unwrap(resp).status = 200
               THEN [poll EXCEPT
                       !.cursor = Unwrap(resp).latest_seq,
                       !.got = @ \o RetainedSeqs(Unwrap(resp))]
               ELSE poll
    /\ UNCHANGED <<vars, cvars, xvars, locks, wst, hconfigured, hst, snap,
                   nstores, nreqs, rst, sst, nrecs, call, ret, boot, login>>

PollNext ==
    \/ \E w \in DOMAIN wst, filter_index \in FilterIndices, spot \in Spots :
          StoreBegin(w, filter_index, spot)
    \/ \E w \in DOMAIN wst : CheckGlobal(w)
    \/ \E w \in DOMAIN wst : ScanLock(w)
    \/ \E w \in DOMAIN wst : ScanRead(w)
    \/ \E w \in DOMAIN wst : EvictLock(w)
    \/ \E w \in DOMAIN wst : EvictPop(w)
    \/ \E w \in DOMAIN wst : EvictSub(w)
    \/ \E w \in DOMAIN wst : EvictCount(w)
    \/ \E w \in DOMAIN wst : LockTarget(w)
    \/ \E w \in DOMAIN wst : Enforce(w)
    \/ \E w \in DOMAIN wst : EnforceSub(w)
    \/ \E w \in DOMAIN wst : Push(w)
    \/ \E w \in DOMAIN wst : AddTotal(w)
    \/ PollRequest
    \/ CheckStorage
    \/ Find
    \/ ReadLock
    \/ ReadSpots
    \/ ReadLatest
    \/ ReadOverflow
    \/ Respond
    \/ PollAdvance

PollSpec == PollInit /\ [][PollNext]_allvars

(***************************************************************************)
(* Properties of the handler                                               *)
(***************************************************************************)
\* the names of the queues of the storage
QueueNames == {StorageAt(storage, i).name : i \in FilterIndices}

\* C17: a response is 404 exactly when storage is not configured or no
\* queue has the name; a 200 response is taken from one state of the queue:
\* its spots are get_spots_since(since or 0) of that state, its latest_seq
\* and overflow_count are those of the same state, and a non-empty spots
\* list ends with the entry whose seq is latest_seq.
C17_ConsistentSnapshot ==
    IsSome(resp) =>
        LET r == Unwrap(resp) IN
        /\ r.status \in {200, 404}
        /\ r.status = 404 <=> (~hconfigured \/ r.filter \notin QueueNames)
        /\ r.status = 200 =>
              /\ IsSome(snap)
              /\ Unwrap(snap).name = r.filter
              /\ r.spots = get_spots_since(Unwrap(snap), UnwrapOr(r.since, 0))
              /\ r.latest_seq = latest_seq(Unwrap(snap))
              /\ r.overflow_count = Unwrap(snap).overflow_count
              /\ r.spots # << >> => Last(r.spots).seq = r.latest_seq

\* a 200 response with spots from a queue that has evicted, returned while
\* a store into that queue waits for the lock
C17_Witness ==
    /\ IsSome(resp)
    /\ Unwrap(resp).status = 200
    /\ Unwrap(resp).spots # << >>
    /\ Unwrap(resp).overflow_count >= 1
    /\ \E w \in Writers : wst[w].pc = "lock_target" /\ wst[w].filter_index = 0

(***************************************************************************)
(* Properties of store_spot step by step                                   *)
(***************************************************************************)
\* the lowest index among the queues of greatest length
LongestQueue ==
    CHOOSE i \in FilterIndices :
        /\ \A j \in FilterIndices : len(Q(j)) <= len(Q(i))
        /\ \A j \in FilterIndices : len(Q(j)) = len(Q(i)) => i <= j

\* C28: in the global-preemption loop of store_spot, the check T + S > G
\* leaves the loop exactly when it is false; every removal takes the oldest
\* entry of the queue of greatest length, the lowest index among equals,
\* and is followed by exactly one increment of global_evictions, which
\* nothing else changes.
C28_GlobalPreemption ==
    [][\A w \in Writers :
          LET W == wst[w]
              stepped == wst'[w] # W
              exceeded == storage.total_size_bytes + json_size(W.spot)
                             > storage.global_max_size IN
          /\ (W.pc = "check_global" /\ stepped) =>
                /\ (wst'[w].pc = "lock_target") <=> ~exceeded
                /\ storage' = storage
          /\ (W.pc = "evict_pop" /\ stepped /\ wst'[w].pc = "evict_sub") =>
                /\ Unwrap(W.max_idx) = LongestQueue
                /\ StorageAt(storage', LongestQueue).spots
                      = Tail(Q(LongestQueue).spots)
                /\ \A i \in FilterIndices \ {LongestQueue} :
                      StorageAt(storage', i) = Q(i)
          /\ (W.pc = "evict_sub" /\ stepped) => wst'[w].pc = "evict_count"
          /\ storage'.global_evictions = storage.global_evictions
                + (IF W.pc = "evict_count" /\ stepped THEN 1 ELSE 0)
    ]_allvars

\* two queues held one entry each, and the global-preemption loop has
\* removed the entry of queue 0 and counted it
C28_Witness ==
    \E w \in Writers :
        /\ wst[w].pc = "check_global"
        /\ wst[w].max_idx = Some(0)
        /\ len(Q(0)) = 0
        /\ len(Q(1)) = 1
        /\ storage.global_evictions = 1

\* no call of store_spot is between its entry and its return
NoStoreInProgress == \A w \in DOMAIN wst : wst[w].pc = "idle"

\* C29: whenever no store is in progress, total_size_bytes is the sum of
\* the queues' current_size_bytes; each queue's current_size_bytes is the
\* sum of the sizes of its retained entries; no counter is ever negative.
C29_SizeAccounting ==
    /\ storage.total_size_bytes >= 0
    /\ \A i \in FilterIndices :
          /\ Q(i).current_size_bytes >= 0
          /\ Q(i).current_size_bytes = BytesOf(Q(i).spots)
    /\ NoStoreInProgress =>
          storage.total_size_bytes
             = SumOver([i \in FilterIndices |-> Q(i).current_size_bytes],
                       filter_count(storage) - 1)

\* store_spot has returned after a global eviction and has enqueued its
\* spot, and both queues retain an entry
C29_Witness ==
    /\ NoStoreInProgress
    /\ storage.global_evictions >= 1
    /\ \A i \in FilterIndices : len(Q(i)) >= 1
    /\ storage.total_size_bytes > 0

\* the queues whose lock thread t holds, as reader or as writer
HeldBy(t) ==
    {i \in FilterIndices : locks[i].writer = t \/ t \in locks[i].readers}

\* the guard a caller of store_spot has in scope at each position: the read
\* guard of queue i in the body of the scan, the write guard of the victim
\* from pop_oldest to the return of evict_from_largest_filter, the write
\* guard of the target from the per-filter loop to the return of store_spot
GuardInScope(W) ==
    CASE W.pc = "scan_read" -> {W.i}
      [] W.pc \in {"evict_pop", "evict_sub"} -> {Unwrap(W.max_idx)}
      [] W.pc \in {"enforce", "enforce_sub", "push", "add_total"} ->
            {W.filter_index}
      [] OTHER -> {}

\* the read guard of the handler, from filter_storage_lock.read() to its
\* return
HandlerGuard ==
    IF hst.pc \in {"read_spots", "read_latest", "read_overflow", "respond"}
    THEN {hst.found}
    ELSE {}

\* a call of store_spot or a request is between its entry and its return
CallInProgress == ~NoStoreInProgress \/ hst.pc # "idle"

\* a step of a call in progress
StepOfCall ==
    \/ \E w \in DOMAIN wst :
          \/ CheckGlobal(w) \/ ScanLock(w) \/ ScanRead(w) \/ EvictLock(w)
          \/ EvictPop(w) \/ EvictSub(w) \/ EvictCount(w) \/ LockTarget(w)
          \/ Enforce(w) \/ EnforceSub(w) \/ Push(w) \/ AddTotal(w)
    \/ CheckStorage \/ Find \/ ReadLock \/ ReadSpots \/ ReadLatest
    \/ ReadOverflow \/ Respond

\* C30: no thread holds the locks of two queues at once: a caller of
\* store_spot holds exactly the guard in scope at its position (one read
\* lock at a time in the scan, none when it asks for the victim's write
\* lock, none between the global-eviction loop and the target's write
\* lock), the handler at most its one read guard; and whenever a call is
\* in progress, with two callers of store_spot and a reader interleaved,
\* some call in progress can take a step.
C30_OneLockNoDeadlock ==
    /\ \A w \in DOMAIN wst :
          /\ HeldBy(w) = GuardInScope(wst[w])
          /\ Cardinality(HeldBy(w)) <= 1
    /\ HeldBy("h") = HandlerGuard
    /\ Cardinality(HeldBy("h")) <= 1
    /\ CallInProgress => ENABLED StepOfCall

\* one caller of store_spot waits for the write lock of the queue the other
\* caller holds, while the handler holds the read lock of the other queue
C30_Witness ==
    /\ wst["w1"].pc \in {"evict_lock", "lock_target"}
    /\ HeldBy("w1") = {}
    /\ HeldBy("w2") = {0}
    /\ locks[0].writer = "w2"
    /\ (wst["w1"].pc = "evict_lock" => wst["w1"].max_idx = Some(0))
    /\ (wst["w1"].pc = "lock_target" => wst["w1"].filter_index = 0)
    /\ HeldBy("h") = {1}

\* C38: a client that polls one queue with since = cursor and then sets its
\* cursor to the latest_seq of the same response is given strictly
\* increasing seq numbers, none twice, whatever is stored and evicted
\* between and during its requests.
C38_PollStrictlyIncreasing ==
    \A k \in 1..(Len(poll.got) - 1) : poll.got[k] < poll.got[k + 1]

\* the client was given seq 1, then the queue overflowed between two polls
\* and it was given seq 3: seq 2 is the gap
C38_Witness ==
    /\ poll.got = <<1, 3>>
    /\ poll.cursor = 3
    /\ poll.polls >= 2

\* C35: with two callers of store_spot interleaved, whenever no call is
\* between its entry and its return, the bytes of the retained entries of
\* all queues, and the counter total_size_bytes, are at most
\* global_max_size.
C35_ConcurrentGlobalBudget ==
    NoStoreInProgress =>
       /\ storage.total_size_bytes <= storage.global_max_size
       /\ SumOver([i \in FilterIndices |-> BytesOf(Q(i).spots)],
                  filter_count(storage) - 1) <= storage.global_max_size

(***************************************************************************)
(* stats.rs: record_spot and summary step by step, one thread each         *)
(***************************************************************************)
\* number of record_spot calls started
MaxRecords == 2

\* the spots recorded: the two of the storage tests and a RTTY beacon of
\* another spotter
StatSpots ==
    Spots \cup {[SpotW1AW EXCEPT !.spotter = <<"A", "A", "-", "#">>,
                                 !.mode = "RTTY", !.spot_type = "BEACON",
                                 !.snr_db = -5]}

\* StatsSummary before any field is read (elapsed time left out)
EmptySummary ==
    [total_spots |-> 0, cw_spots |-> 0, parse_failures |-> 0,
     non_spot_lines |-> 0, bytes_processed |-> 0,
     size_histogram |-> EmptyBag, snr_histogram |-> EmptyBag,
     wpm_histogram |-> EmptyBag, spots_by_band |-> EmptyBag,
     spots_by_mode |-> EmptyBag, spots_by_type |-> EmptyBag,
     top_spotters |-> << >>]

\* the (key, count) vectors that sort_by(|a, b| b.1.cmp(&a.1)) and
\* truncate(10) can leave: entries by count descending, entries of equal
\* count in the iteration order of the HashMap, which is any order
TopSpotterLists(bag) ==
    LET keys == BagToSet(bag)
        n == Cardinality(keys)
        orders == {f \in [1..n -> keys] :
                      /\ \A a, b \in 1..n : a # b => f[a] # f[b]
                      /\ \A a \in 1..(n - 1) :
                            CopiesIn(f[a], bag) >= CopiesIn(f[a + 1], bag)}
    IN  {[k \in 1..(IF n < 10 THEN n ELSE 10) |-> <<f[k], CopiesIn(f[k], bag)>>] :
            f \in orders}

RecorderIdle == [pc |-> "idle", spot |-> SpotW1AW]
SummaryIdle == [pc |-> "idle", summary |-> EmptySummary, result |-> None]

StatsInit ==
    /\ CallsIdle
    /\ StorageIdle
    /\ ClientIdle
    /\ pline = << >>
    /\ plooks = None
    /\ presult = None
    /\ cw_only = FALSE
    /\ with_storage = FALSE
    /\ stats = SpotStats_new
    /\ handled = 0
    /\ filtered = 0
    /\ locks = << >>
    /\ wst = << >>
    /\ hconfigured = FALSE
    /\ hst = << >>
    /\ resp = None
    /\ snap = None
    /\ nstores = 0
    /\ nreqs = 0
    /\ rst = RecorderIdle
    /\ sst = SummaryIdle
    /\ nrecs = 0

\* what a step of record_spot or of summary leaves alone
StatsFrame ==
    UNCHANGED <<vars, cvars, pline, plooks, presult, cw_only, with_storage,
                handled, filtered, locks, wst, hconfigured, hst, resp, snap,
                nstores, nreqs, pvars>>

\* record_spot(&spot) is called
RecordBegin(spot) ==
    /\ rst.pc = "idle"
    /\ nrecs < MaxRecords
    /\ nrecs' = nrecs + 1
    /\ rst' = [pc |-> "total", spot |-> spot]
    /\ UNCHANGED <<stats, sst>>
    /\ StatsFrame

\* one statement of record_spot is executed
RecordStep(pc, next) ==
    /\ rst.pc = pc
    /\ stats' = record_step(pc, stats, rst.spot)
    /\ rst' = [rst EXCEPT !.pc = next]
    /\ UNCHANGED <<sst, nrecs>>
    /\ StatsFrame

\* summary() is called
SummaryBegin ==
    /\ sst.pc = "idle"
    /\ sst' = [pc |-> "total", summary |-> EmptySummary, result |-> None]
    /\ UNCHANGED <<stats, rst, nrecs>>
    /\ StatsFrame

\* one load or one locked read of summary: the field is copied
SummaryRead(pc, field, next) ==
    /\ sst.pc = pc
    /\ sst' = [sst EXCEPT !.pc = next, !.summary[field] = stats[field]]
    /\ UNCHANGED <<stats, rst, nrecs>>
    /\ StatsFrame

\* the read of top_spotters: collect, sort by count, truncate to 10
SummaryTopSpotters ==
    /\ sst.pc = "top_spotters"
    /\ \E v \in TopSpotterLists(stats.top_spotters) :
          sst' = [sst EXCEPT !.pc = "return", !.summary.top_spotters = v]
    /\ UNCHANGED <<stats, rst, nrecs>>
    /\ StatsFrame

\* summary returns its StatsSummary
SummaryReturn ==
    /\ sst.pc = "return"
    /\ sst' = [sst EXCEPT !.pc = "idle", !.result = Some(sst.summary)]
    /\ UNCHANGED <<stats, rst, nrecs>>
    /\ StatsFrame

StatsNext ==
    \/ \E spot \in StatSpots : RecordBegin(spot)
    \/ RecordStep("total", "cw")
    \/ RecordStep("cw", "size")
    \/ RecordStep("size", "snr")
    \/ RecordStep("snr", "wpm")
    \/ RecordStep("wpm", "band")
    \/ RecordStep("band", "mode")
    \/ RecordStep("mode", "type")
    \/ RecordStep("type", "spotter")
    \/ RecordStep("spotter", "idle")
    \/ SummaryBegin
    \/ SummaryRead("total", "total_spots", "cw")
    \/ SummaryRead("cw", "cw_spots", "failures")
    \/ SummaryRead("failures", "parse_failures", "non_spots")
    \/ SummaryRead("non_spots", "non_spot_lines", "bytes")
    \/ SummaryRead("bytes", "bytes_processed", "size")
    \/ SummaryRead("size", "size_histogram", "snr")
    \/ SummaryRead("snr", "snr_histogram", "wpm")
    \/ SummaryRead("wpm", "wpm_histogram", "band")
    \/ SummaryRead("band", "spots_by_band", "mode")
    \/ SummaryRead("mode", "spots_by_mode", "type")
    \/ SummaryRead("type", "spots_by_type", "top_spotters")
    \/ SummaryTopSpotters
    \/ SummaryReturn

StatsSpec == StatsInit /\ [][StatsNext]_allvars

(***************************************************************************)
(* Properties of the statistics                                            *)
(***************************************************************************)
\* C18: in every summary returned while record_spot may run, the counts of
\* spots_by_mode add up to total_spots, and so do those of spots_by_type.
C18_SummaryConsistent ==
    IsSome(sst.result) =>
        /\ BagCardinality(Unwrap(sst.result).spots_by_mode)
              = Unwrap(sst.result).total_spots
        /\ BagCardinality(Unwrap(sst.result).spots_by_type)
              = Unwrap(sst.result).total_spots

(***************************************************************************)
(* Calls of the functions that have no state                               *)
(***************************************************************************)
\* make_spot(dx_call, spotter, freq, snr, wpm) of the tests of filter.rs
filter_make_spot(dx_call, spotter, freq_tenths, snr, wpm) ==
    [spotter |-> spotter, frequency_tenths |-> freq_tenths,
     dx_call |-> dx_call, mode |-> "CW", snr_db |-> snr, wpm |-> wpm,
     spot_type |-> "CQ", time |-> <<12, 0, 0>>]

\* the spots handed to matches: the two spots of the combined example, a
\* spot on 40m, and a lower-case call just below the 20m band
MatchSpots ==
    LET ea5wu == <<"E", "A", "5", "W", "U", "-", "#">> IN
    {filter_make_spot(<<"W", "6", "J", "S", "V">>, ea5wu, 140250, 20, 20),
     filter_make_spot(<<"K", "1", "A", "B", "C">>, ea5wu, 140250, 20, 20),
     filter_make_spot(<<"W", "6", "J", "S", "V">>, ea5wu, 70250, 20, 20),
     filter_make_spot(<<"w", "6", "j", "s", "v">>, ea5wu, 139999, 20, 20)}

\* the filters handed to matches: every field absent, or present with a
\* value the spots meet or fail
MatchFilters ==
    {[name |-> None, dx_call |-> d, spotter |-> s, bands |-> b, modes |-> m,
      spot_types |-> t, min_snr |-> n1, max_snr |-> n2, min_wpm |-> w1,
      max_wpm |-> w2, max_kept_entries |-> None] :
        d \in {None, Some(<< >>), Some(<< <<"W", "6", "*">> >>),
               Some(<< <<"D", "L", "*">>, <<"*", "A", "B", "C">> >>)},
        s \in {None, Some(<< <<"D", "L", "*">> >>)},
        b \in {None, Some(<< >>), Some(<< <<"2", "0", "m">> >>),
               Some(<< <<"8", "0", "M">>, <<"4", "0", "M">> >>)},
        m \in {None, Some(<<"RTTY">>)},
        t \in {None, Some(<<"BEACON", "CQ">>)},
        n1 \in {None, Some(15), Some(20), Some(21)},
        n2 \in {None, Some(20), Some(19)},
        w1 \in {None, Some(20), Some(21)},
        w2 \in {None, Some(20), Some(19)}}

\* the calls filter.matches(&spot)
MatchCalls == [fn : {"matches"}, a : MatchFilters, b : MatchSpots]

\* the patterns handed to matches_wildcard and to validation: those of the
\* tests, lower-case ones, a lone star, the empty pattern, two stars
WildcardPatterns ==
    {<<"W", "6", "*">>, <<"*", "J", "S", "V">>, <<"W", "6", "J", "S", "V">>,
     <<"w", "6", "*">>, <<"*", "j", "s", "v">>, <<"w", "6", "j", "s", "v">>,
     <<"*">>, << >>, <<"*", "W", "6", "*">>, <<"W", "*", "6">>, <<"*", "*">>,
     <<"W", "6", "*", "*">>}

\* the values handed to matches_wildcard
WildcardValues ==
    {<<"W", "6", "J", "S", "V">>, <<"w", "6", "a", "b", "c">>,
     <<"K", "6", "J", "S", "V">>, <<"K", "1", "J", "S", "V">>,
     <<"W", "6", "A", "B", "C">>, <<"w", "6", "j", "s", "v">>,
     <<"W", "6">>, <<"J", "S", "V">>, <<"S", "V">>, << >>}

\* the calls matches_wildcard(pattern, value)
WildcardCalls ==
    [fn : {"matches_wildcard"}, a : WildcardPatterns, b : WildcardValues]

\* the bounds of the match arms of band, in kHz
BandEdges ==
    {135, 138, 472, 479, 1800, 2000, 3500, 4000, 5330, 5410, 7000, 7300,
     10100, 10150, 14000, 14350, 18068, 18168, 21000, 21450, 24890, 24990,
     28000, 29700, 50000, 54000, 144000, 148000}

\* the frequencies handed to band, in tenths of a kHz: around every bound,
\* the kHz below, the bound and the kHz above, each with .0 and .9
BandFrequencies ==
    {10 * (e + d) + t : e \in BandEdges, d \in {-1, 0, 1}, t \in {0, 9}}

\* the calls make_spot(freq).band() of test_band_detection_edge_cases
BandCalls ==
    [fn : {"band"},
     a : {filter_make_spot(<<"W", "1", "A", "W">>,
                           <<"T", "E", "S", "T", "-", "#">>, f, 10, 20) :
             f \in BandFrequencies},
     b : {<< >>}]

\* the top_spotters maps handed to the top-10 step of summary: up to two
\* spots recorded for each of three spotters
TopSpotterCalls ==
    [fn : {"top_spotters"},
     a : {SetToBag({<<"T", "E", "S", "T", "-", "#">>}),
          SetToBag({<<"T", "E", "S", "T", "-", "#">>})
             (+) SetToBag({<<"A", "A", "-", "#">>}),
          SetToBag({<<"T", "E", "S", "T", "-", "#">>})
             (+) SetToBag({<<"A", "A", "-", "#">>})
             (+) SetToBag({<<"A", "A", "-", "#">>}),
          SetToBag({<<"T", "E", "S", "T", "-", "#">>})
             (+) SetToBag({<<"A", "A", "-", "#">>})
             (+) SetToBag({<<"W", "3", "L", "P", "L", "-", "#">>})
             (+) SetToBag({<<"W", "3", "L", "P", "L", "-", "#">>})},
     b : {<< >>}]

\* the name field of a filter of the configuration: absent, or one of three
\* names, one of them of the form the storage generates
ConfiguredNames == {None, Some("filter_a"), Some("filter_b"), Some("filter_1")}

\* the storages of one to three catch-all filters with these names
NameCalls ==
    [fn : {"names"},
     a : {SpotStorage_new(
             [default_max_kept_entries |-> 50, global_max_size |-> 10 * 1024 * 1024],
             [k \in 1..Len(names) |->
                 [DefaultFilter EXCEPT !.name = names[k]]]) :
          names \in UNION {[1..m -> ConfiguredNames] : m \in 1..3}},
     b : {<< >>}]

\* SNR values of the histogram's range, -29..69
SnrValues == {-29, -5, 0, 15, 69}

\* one or two spots of these SNR values recorded, then summary()
SnrCalls ==
    [fn : {"snr_summary"},
     a : {[k \in 1..Len(s) |-> [SpotW1AW EXCEPT !.snr_db = s[k]]] :
            s \in UNION {[1..m -> SnrValues] : m \in 1..2}},
     b : {<< >>}]

\* the calls explored
Calls ==
    MatchCalls \cup WildcardCalls \cup BandCalls \cup TopSpotterCalls
       \cup NameCalls \cup SnrCalls

CallInit ==
    /\ StorageIdle
    /\ ClientIdle
    /\ ParserIdle
    /\ ThreadsIdle
    /\ call \in Calls
    /\ ret = None
    /\ boot = << >>
    /\ login = << >>
    /\ poll = << >>

\* filter.matches(&spot) returns
Matches ==
    /\ call.fn = "matches"
    /\ ret = None
    /\ ret' = Some(matches(call.a, call.b))
    /\ UNCHANGED <<call, boot, login, poll>>

\* matches_wildcard(pattern, value) returns
MatchesWildcard ==
    /\ call.fn = "matches_wildcard"
    /\ ret = None
    /\ ret' = Some(matches_wildcard(call.a, call.b))
    /\ UNCHANGED <<call, boot, login, poll>>

\* spot.band() returns
Band ==
    /\ call.fn = "band"
    /\ ret = None
    /\ ret' = Some(band(call.a))
    /\ UNCHANGED <<call, boot, login, poll>>

\* summary() computes top_spotters from the map
TopSpotters ==
    /\ call.fn = "top_spotters"
    /\ ret = None
    /\ \E v \in TopSpotterLists(call.a) : ret' = Some(v)
    /\ UNCHANGED <<call, boot, login, poll>>

\* get_filter_by_name(name) returns, for each name of filter_names() in turn
Names ==
    /\ call.fn = "names"
    /\ ret = None
    /\ ret' = Some([i \in 1..filter_count(call.a) |->
                      get_filter_by_name(call.a, filter_names(call.a)[i])])
    /\ UNCHANGED <<call, boot, login, poll>>

\* record_spot for each spot, then summary().snr_percentiles
SnrSummary ==
    /\ call.fn = "snr_summary"
    /\ ret = None
    /\ ret' = Some(snr_percentiles(record_all(SpotStats_new, call.a)))
    /\ UNCHANGED <<call, boot, login, poll>>

CallNext ==
    \/ SnrSummary /\ UNCHANGED <<vars, cvars, xvars, kvars>>
    \/ Names /\ UNCHANGED <<vars, cvars, xvars, kvars>>
    \/ Matches /\ UNCHANGED <<vars, cvars, xvars, kvars>>
    \/ TopSpotters /\ UNCHANGED <<vars, cvars, xvars, kvars>>
    \/ Band /\ UNCHANGED <<vars, cvars, xvars, kvars>>
    \/ MatchesWildcard /\ UNCHANGED <<vars, cvars, xvars, kvars>>

CallSpec == CallInit /\ [][CallNext]_allvars

(***************************************************************************)
(* Properties of the filter                                                *)
(***************************************************************************)
\* a pattern list of a filter constrains nothing when absent or empty, and
\* is met when one of its patterns matches the value
PatternsMet(patterns, value) ==
    \/ patterns = None
    \/ Unwrap(patterns) = << >>
    \/ \E k \in DOMAIN Unwrap(patterns) :
          matches_wildcard(Unwrap(patterns)[k], value)

\* the bands field is met when absent, or when the spot has a band that
\* equals a listed band up to ASCII case
BandsMet(bands, spot) ==
    \/ bands = None
    \/ /\ band(spot) # None
       /\ \E k \in DOMAIN Unwrap(bands) :
             to_ascii_uppercase(Unwrap(bands)[k])
                = to_ascii_uppercase(Unwrap(band(spot)))

\* a list of modes or spot types is met when absent or when it lists the value
ListedMet(list, value) ==
    list = None \/ \E k \in DOMAIN Unwrap(list) : Unwrap(list)[k] = value

\* an inclusive range is met by the values from min to max, an absent bound
\* not bounding
RangeMet(lo, hi, value) ==
    /\ (lo = None \/ value >= Unwrap(lo))
    /\ (hi = None \/ value <= Unwrap(hi))

\* C23: matches returns true iff every specified field is met (patterns:
\* absent, empty or one pattern matching; bands: the band exists and is
\* listed up to case; modes and spot types: listed; SNR and WPM within the
\* inclusive bounds); so the default filter matches every spot.
C23_MatchesIsConjunction ==
    (call.fn = "matches" /\ IsSome(ret)) =>
        /\ Unwrap(ret) =
              (/\ PatternsMet(call.a.dx_call, call.b.dx_call)
               /\ PatternsMet(call.a.spotter, call.b.spotter)
               /\ BandsMet(call.a.bands, call.b)
               /\ ListedMet(call.a.modes, call.b.mode)
               /\ ListedMet(call.a.spot_types, call.b.spot_type)
               /\ RangeMet(call.a.min_snr, call.a.max_snr, call.b.snr_db)
               /\ RangeMet(call.a.min_wpm, call.a.max_wpm, call.b.wpm))
        /\ (call.a = DefaultFilter => Unwrap(ret))

\* matches has answered the combined example: dx_call W6*, band 20m and
\* min_snr 15 against K1ABC on 14025 with 20 dB does not match
C23_Witness ==
    /\ call.fn = "matches"
    /\ call.a = [DefaultFilter EXCEPT
                    !.dx_call = Some(<< <<"W", "6", "*">> >>),
                    !.bands = Some(<< <<"2", "0", "m">> >>),
                    !.min_snr = Some(15)]
    /\ call.b.dx_call = <<"K", "1", "A", "B", "C">>
    /\ call.b.frequency_tenths = 140250
    /\ ret = Some(FALSE)

\* two strings are equal up to ASCII case
SameIgnoringCase(x, y) ==
    /\ Len(x) = Len(y)
    /\ \A k \in DOMAIN x : ToUpperChar(x[k]) = ToUpperChar(y[k])

\* pattern p is '*S' and v ends with S, or p is 'P*' and v starts with P,
\* or p has no '*' and v equals p, all up to ASCII case
WildcardMeaning(p, v) ==
    \/ /\ Len(p) > 0 /\ p[1] = "*"
       /\ Len(v) >= Len(p) - 1
       /\ SameIgnoringCase(SubSeq(v, Len(v) - Len(p) + 2, Len(v)), Tail(p))
    \/ /\ Len(p) > 0 /\ p[Len(p)] = "*"
       /\ Len(v) >= Len(p) - 1
       /\ SameIgnoringCase(SubSeq(v, 1, Len(p) - 1), SubSeq(p, 1, Len(p) - 1))
    \/ /\ \A k \in DOMAIN p : p[k] # "*"
       /\ SameIgnoringCase(p, v)

\* C24: for a pattern that validation accepts, matches_wildcard(p, v) is
\* true iff, up to ASCII case, p = '*S' and v ends with S, or p = 'P*' and v
\* starts with P, or p has no '*' and v = p.
C24_WildcardMeaning ==
    (call.fn = "matches_wildcard" /\ IsSome(ret)
       /\ validate_wildcard_pattern(call.a).ok) =>
        Unwrap(ret) = WildcardMeaning(call.a, call.b)

\* matches_wildcard("w6jsv", "W6JSV") has returned true
C24_Witness ==
    /\ call.fn = "matches_wildcard"
    /\ call.a = <<"w", "6", "j", "s", "v">>
    /\ call.b = <<"W", "6", "J", "S", "V">>
    /\ ret = Some(TRUE)

\* the band table: lowest kHz, highest kHz (both inclusive), label
BandTable ==
    << <<135, 138, <<"2", "2", "0", "0", "m">> >>,
       <<472, 479, <<"6", "3", "0", "m">> >>,
       <<1800, 2000, <<"1", "6", "0", "m">> >>,
       <<3500, 4000, <<"8", "0", "m">> >>,
       <<5330, 5410, <<"6", "0", "m">> >>,
       <<7000, 7300, <<"4", "0", "m">> >>,
       <<10100, 10150, <<"3", "0", "m">> >>,
       <<14000, 14350, <<"2", "0", "m">> >>,
       <<18068, 18168, <<"1", "7", "m">> >>,
       <<21000, 21450, <<"1", "5", "m">> >>,
       <<24890, 24990, <<"1", "2", "m">> >>,
       <<28000, 29700, <<"1", "0", "m">> >>,
       <<50000, 54000, <<"6", "m">> >>,
       <<144000, 148000, <<"2", "m">> >> >>

\* C26: band() is the table function of the integer floor of
\* frequency_khz: a floor within a row, bounds included, gives the row's
\* label; a floor 1 kHz below a lower bound or 1 kHz above an upper bound
\* gives no band.
C26_BandTableOfFloor ==
    (call.fn = "band" /\ IsSome(ret)) =>
        LET floor == call.a.frequency_tenths \div 10 IN
        \A r \in DOMAIN BandTable :
            /\ (BandTable[r][1] <= floor /\ floor <= BandTable[r][2])
                  => Unwrap(ret) = Some(BandTable[r][3])
            /\ floor \in {BandTable[r][1] - 1, BandTable[r][2] + 1}
                  => Unwrap(ret) = None

\* band() of 6999.9 kHz has returned no band
C26_Witness ==
    /\ call.fn = "band"
    /\ call.a.frequency_tenths = 69999
    /\ ret = Some(None)

\* the characters of a callsign in ASCII order
AsciiOrder ==
    <<"#", "-", "/", "0", "1", "2", "3", "4", "5", "6", "7", "8", "9">>
      \o UpperChars \o LowerChars

RECURSIVE NameBefore(_, _)
\* a < b for two names, compared as strings
NameBefore(a, b) ==
    IF b = << >> THEN FALSE
    ELSE IF a = << >> THEN TRUE
    ELSE IF Head(a) = Head(b) THEN NameBefore(Tail(a), Tail(b))
    ELSE (CHOOSE k \in DOMAIN AsciiOrder : AsciiOrder[k] = Head(a))
            < (CHOOSE k \in DOMAIN AsciiOrder : AsciiOrder[k] = Head(b))

\* C27: top_spotters lists at most 10 spotters by count descending and,
\* among equal counts, by name ascending.
C27_TopSpottersOrdered ==
    (call.fn = "top_spotters" /\ IsSome(ret)) =>
        LET v == Unwrap(ret) IN
        /\ Len(v) <= 10
        /\ \A k \in 1..(Len(v) - 1) :
              \/ v[k][2] > v[k + 1][2]
              \/ v[k][2] = v[k + 1][2] /\ NameBefore(v[k][1], v[k + 1][1])

\* C40: after recording only spots whose snr_db lies in -29..69, the SNR
\* min and max of summary() are the smallest and the largest recorded snr_db,
\* negative ones included.
C40_SnrOffsetUndone ==
    (call.fn = "snr_summary" /\ IsSome(ret)) =>
       /\ \A k \in 1..Len(call.a) : Unwrap(ret).min <= call.a[k].snr_db
       /\ \E k \in 1..Len(call.a) : Unwrap(ret).min = call.a[k].snr_db
       /\ \A k \in 1..Len(call.a) : Unwrap(ret).max >= call.a[k].snr_db
       /\ \E k \in 1..Len(call.a) : Unwrap(ret).max = call.a[k].snr_db

\* C39: for every storage and every queue index i,
\* get_filter_by_name(filter_names()[i]) returns the lock of queue i, and
\* the names of the queues are pairwise distinct.
C39_NamesReachQueues ==
    (call.fn = "names" /\ IsSome(ret)) =>
       /\ \A i \in 1..filter_count(call.a) : Unwrap(ret)[i] = Some(i - 1)
       /\ \A i, j \in 1..filter_count(call.a) :
             i # j => filter_names(call.a)[i] # filter_names(call.a)[j]

(***************************************************************************)
(* main.rs: the start of the program, from the loaded Config to the        *)
(* running client                                                          *)
(***************************************************************************)
\* Config::filters of the configurations explored: no filter, one filter
\* with one dx_call pattern, and a second filter whose second spotter
\* pattern is the one in question
StartupConfigs ==
    {<< >>}
      \cup {<< [DefaultFilter EXCEPT !.dx_call = Some(<<p>>)] >> :
               p \in WildcardPatterns}
      \cup {<< DefaultFilter,
               [DefaultFilter EXCEPT
                  !.spotter = Some(<< <<"E", "A", "5", "*">>, p >>)] >> :
               p \in {<<"W", "*", "6">>, <<"*", "J", "S", "V">>}}

\* main after Config::load()
StartupInit ==
    /\ StorageIdle
    /\ ClientIdle
    /\ ParserIdle
    /\ ThreadsIdle
    /\ call = << >>
    /\ ret = None
    /\ login = << >>
    /\ poll = << >>
    /\ boot \in [pc : {"validate"}, filters : StartupConfigs]

\* config.validate()?
Validate ==
    /\ boot.pc = "validate"
    /\ boot' = [boot EXCEPT !.pc = IF Config_validate(boot.filters)
                                   THEN "setup" ELSE "aborted"]
    /\ UNCHANGED <<call, ret, login, poll>>

\* logging, PoLo notes, statistics, storage, HTTP server, shutdown handler
\* and statistics printer are set up
Setup ==
    /\ boot.pc = "setup"
    /\ boot' = [boot EXCEPT !.pc = "connect"]
    /\ UNCHANGED <<call, ret, login, poll>>

\* RbnClient::new(client_config).connect(): the channel is created and the
\* connection task spawned; the event loop starts
StartClient ==
    /\ boot.pc = "connect"
    /\ boot' = [boot EXCEPT !.pc = "running"]
    /\ auto_reconnect' \in BOOLEAN
    /\ cstate' = "CONNECTING"
    /\ rx_alive' = TRUE
    /\ main_pc' = "running"
    /\ attempts' = 1
    /\ exit_cause' = NoExit
    /\ UNCHANGED <<chan, line_buf, shutdown, main_exit, lines_read, received,
                   emitted, send_failed, call, ret, login, poll>>

StartupNext ==
    \/ Validate /\ UNCHANGED <<vars, cvars, xvars, kvars>>
    \/ Setup /\ UNCHANGED <<vars, cvars, xvars, kvars>>
    \/ StartClient /\ UNCHANGED <<vars, xvars, kvars>>
    \/ boot.pc = "running" /\ ClientNext

StartupSpec == StartupInit /\ [][StartupNext]_allvars

(***************************************************************************)
(* Properties of the start of the program                                  *)
(***************************************************************************)
\* the patterns of dx_call and spotter of all filters of a configuration
PatternsOf(filters) ==
    UNION {{UnwrapOr(filters[i].dx_call, << >>)[k] :
               k \in DOMAIN UnwrapOr(filters[i].dx_call, << >>)}
           \cup {UnwrapOr(filters[i].spotter, << >>)[k] :
                    k \in DOMAIN UnwrapOr(filters[i].spotter, << >>)} :
           i \in DOMAIN filters}

\* at most one '*', and that one first or last
PatternAccepted(p) ==
    LET stars == {k \in DOMAIN p : p[k] = "*"} IN
    /\ Cardinality(stars) <= 1
    /\ stars \subseteq {1, Len(p)}

\* C25: the configuration is rejected at startup iff one of its dx_call or
\* spotter patterns has more than one '*' or a '*' that is neither first
\* nor last, and after a rejection the client never starts a connection
\* attempt.
C25_InvalidPatternRejected ==
    LET accepted == \A p \in PatternsOf(boot.filters) : PatternAccepted(p) IN
    /\ (boot.pc # "validate" => (boot.pc = "aborted" <=> ~accepted))
    /\ (boot.pc = "aborted" => attempts = 0 /\ cstate = "IDLE")
    /\ (attempts > 0 => accepted)

\* a configuration whose second filter has a spotter pattern with its '*'
\* in the middle was rejected
C25_Witness ==
    /\ boot.pc = "aborted"
    /\ <<"W", "*", "6">> \in PatternsOf(boot.filters)
    /\ Len(boot.filters) = 2

====
